---- MODULE Spec2Model ----
(***************************************************************************)
(* WavPlayer: the double-buffered streaming engine of src/main.rs (the     *)
(* producer loop of main, the DMA1_STREAM4 completion interrupt and the    *)
(* double-buffered DMA stream they share) together with the sequential     *)
(* block reader WavFile::get_next_pcm_block of src/wav.rs.                 *)
(*                                                                         *)
(* u32 values are kept at their width.  TLC's integers are 32-bit signed,  *)
(* so a u32 is a pair <<hi, lo>> of 16-bit limbs and the arithmetic of the *)
(* code is done limb-wise, with the carry out of the high limb reported as *)
(* overflow.  An overflowing u32 operation panics when the build has       *)
(* overflow checks (debug profile) and wraps when it has none (release     *)
(* profile); the build is chosen in Init and both are explored.            *)
(***************************************************************************)
EXTENDS Integers, Sequences, FiniteSets, TLC

VARIABLES
    buf_states,       \* G_DBUF_INFO.buf_states : [0..1 -> AudioBufState]
    pc,               \* position of main in its 'main loop
    fill_indx,        \* main's fill_indx (None or a slot index)
    blk,              \* iteration of `for _ in 0..BUF_BLOCKS`
    wav,              \* the WavFile cursor
    overflow_checks,  \* TRUE: overflow panics; FALSE: overflow wraps
    ret,              \* outcome of the last get_next_pcm_block call
    ok_reads,         \* number of calls that returned Ok so far
    calls,            \* number of direct calls made (bounded driver only)
    payload,          \* G_DBUF[i]: what the slot's sample storage holds
    dma_mem,          \* the stream's two memory address registers (M0AR, M1AR)
    dma_ct,           \* the stream's current target: dma_mem[dma_ct] is being read
    tc_flag,          \* transfer-complete interrupt flag
    fe_flag,          \* FIFO-error interrupt flag
    play,             \* what the output started to read at its last buffer switch
    fill_failed,      \* per slot: the current fill attempt met a failed block read
    event,            \* the handler step taken last
    riff,             \* a RIFF file on the block device, the chunk walk over it
                      \* and the outcome of WavFile::new on it
    vol,              \* an exFAT volume on the block device and the outcome of
                      \* the volume reader's operation on it
    samples           \* what the get_next_samples calls have yielded

vars == <<buf_states, pc, fill_indx, blk, wav, overflow_checks, ret, ok_reads,
          calls, payload, dma_mem, dma_ct, tc_flag, fe_flag, play, fill_failed,
          event, riff, vol, samples>>

\* The state of the file-system and container readers, which the streaming
\* engine and the block reader leave alone.
fs_vars == <<riff, vol, samples>>

engine_vars == <<buf_states, pc, fill_indx, blk, payload, dma_mem, dma_ct,
                 tc_flag, fe_flag, play, fill_failed>>

\* The state of the player: the engine, the cursor and its call history.
player_vars == <<engine_vars, wav, overflow_checks, ret, ok_reads, calls,
                 event>>

----------------------------------------------------------------------------
(* Program constants *)

BLOCK_SIZE == 512

BUF_BLOCKS == 1

\* wav.rs: how many blocks get_next_samples reads into its scratch vector
BUFFER_BLOCKS == 100

\* Option::None of find_buffer / fill_indx
None == -1

\* The id of SILENCE_BUFFER among the DMA's possible memory targets
\* (0 and 1 are G_DBUF[0] and G_DBUF[1]).
SILENCE_BUFFER == 2

(* Bounds of the model *)

\* first_byte ranges over 44, 200, 356, 512, 668, ... : before, on and
\* beyond the first block boundary.
MaxFirstByteSteps == 7

\* data_length ranges over 0, 260, 520, ...
MaxDataLenSteps == 8

\* number of direct get_next_pcm_block calls in WavSpec
MaxCalls == 4

\* number of empty chunks between the WAVE tag and the other chunks of a file
MaxJunk == 7

\* the padding chunk's payload ranges over 464, 470, 476, ...
MaxPadSteps == 6

\* number of chunks walked by get_first_chunk and get_next_chunk
MaxHops == 12

\* cluster numbers range over 0..MaxCluster and 65534..65534 + MaxCluster
MaxCluster == 5

\* number of calc_cluster_sector calls on one volume
MaxClusterCalls == 2

\* number of get_next_samples calls on one cursor
MaxSampleCalls == 3

\* number of file name entries of a file (the format allows 17)
MaxNameEntries == 17

\* a long directory has up to 6 * MaxExtraFiles files more than a listing holds
MaxExtraFiles == 2

\* secondary entries a file entry of a short entry set declares: 1..MaxGoverned
MaxGoverned == 3

\* format codes of a fmt chunk: 0..MaxFormatCode and the two highest
MaxFormatCode == 63

\* the sector of a directory whose read fails is sector 0..MaxFailingSector
MaxFailingSector == 2

----------------------------------------------------------------------------
(* u32 arithmetic *)

Limb == 2^16

U32(n) == <<n \div Limb, n % Limb>>

U32ToInt(x) == x[1] * Limb + x[2]

\* a + b in u32: the wrapped value and whether it overflowed
U32Add(a, b) ==
    LET lo == a[2] + b[2]
        hi == a[1] + b[1] + (lo \div Limb)
    IN  [val |-> <<hi % Limb, lo % Limb>>, overflow |-> hi >= Limb]

\* a - b in u32: the wrapped value and whether it overflowed (b > a)
U32Sub(a, b) ==
    LET lo == a[2] - b[2]
        borrow == IF lo < 0 THEN 1 ELSE 0
        hi == a[1] - b[1] - borrow
    IN  [val |-> <<(hi + Limb) % Limb, (lo + Limb) % Limb>>, overflow |-> hi < 0]

U32Ge(a, b) == a[1] > b[1] \/ (a[1] = b[1] /\ a[2] >= b[2])

U32Lt(a, b) == ~U32Ge(a, b)

\* a * 2^s in u32, for s below 32: the wrapped value and whether it
\* overflowed
U32MulPow2(a, s) ==
    IF s < 16
    THEN LET lo == a[2] * (2 ^ s)
             hi == a[1] * (2 ^ s) + (lo \div Limb)
         IN  [val |-> <<hi % Limb, lo % Limb>>, overflow |-> hi >= Limb]
    ELSE LET hi == a[2] * (2 ^ (s - 16))
         IN  [val |-> <<hi % Limb, 0>>, overflow |-> hi >= Limb \/ a[1] # 0]

\* x / BLOCK_SIZE for a u32 x (the quotient is below 2^23)
U32DivBlock(x) == x[1] * (Limb \div BLOCK_SIZE) + (x[2] \div BLOCK_SIZE)

----------------------------------------------------------------------------
(* audio_buffer.rs *)

AudioBufState == {"Filling", "Filled", "Playing", "Empty"}

\* find_buffer with the comparison inverted: the first buffer NOT in match_state
find_buffer_NotEq(states, match_state) ==
    IF states[0] # match_state THEN 0
    ELSE IF states[1] # match_state THEN 1
    ELSE None

\* index of the first buffer in state match_state, or None
find_buffer(states, match_state) ==
    IF states[0] = match_state THEN 0
    ELSE IF states[1] = match_state THEN 1
    ELSE None

----------------------------------------------------------------------------
(* wav.rs: WavFile::get_next_pcm_block *)

Ret(res, w, blockaddr, issued, depth) ==
    [res |-> res, wav |-> w, blockaddr |-> blockaddr, read_issued |-> issued,
     depth |-> depth]

\* self: the cursor; io_ok: whether the storage read, if one is issued,
\* succeeds; checks: overflow checks of the build; depth: recursive
\* self-calls made so far.
\* res is "Ok", "Err", "Panic" (an overflow under overflow checks) or
\* "Diverge": the alignment step left bytes_read at 0, so the recursive call
\* is the same call again and the function never returns.
RECURSIVE get_next_pcm_block(_, _, _, _)
get_next_pcm_block(self, io_ok, checks, depth) ==
    IF self.bytes_read = U32(0)
    THEN LET d == U32Sub(U32(BLOCK_SIZE), self.first_byte)
             aligned == [self EXCEPT !.bytes_read = U32Add(self.bytes_read, d.val).val]
         IN  IF d.overflow /\ checks
             THEN Ret("Panic", self, None, FALSE, depth)
             ELSE IF aligned.bytes_read = U32(0)
             THEN Ret("Diverge", aligned, None, FALSE, depth + 1)
             ELSE get_next_pcm_block(aligned, io_ok, checks, depth + 1)
    ELSE LET new_bytes_read == U32Add(self.bytes_read, U32(BLOCK_SIZE))
             off == U32Add(self.first_byte, self.bytes_read)
             blockaddr == self.start_block_address + U32DivBlock(off.val)
         IN  IF new_bytes_read.overflow /\ checks
             THEN Ret("Panic", self, None, FALSE, depth)
             ELSE IF U32Ge(new_bytes_read.val, self.data_length)
             THEN Ret("Err", self, None, FALSE, depth)
             ELSE IF off.overflow /\ checks
             THEN Ret("Panic", self, None, FALSE, depth)
             ELSE IF io_ok
             THEN Ret("Ok", [self EXCEPT !.bytes_read = new_bytes_read.val],
                      blockaddr, TRUE, depth)
             ELSE Ret("Err", self, blockaddr, TRUE, depth)

----------------------------------------------------------------------------
(* Initial state *)

FirstBytes == {44 + 156 * k : k \in 0..MaxFirstByteSteps}

DataLengths == {260 * k : k \in 0..MaxDataLenSteps}

\* A cursor as WavFile::new leaves it: bytes_read 0, first_byte the payload
\* offset of the data chunk, data_length its declared length.
WavInit ==
    /\ \E fb \in FirstBytes, dl \in DataLengths :
          wav = [start_block_address |-> 64, data_length |-> U32(dl),
                 first_byte |-> U32(fb), bytes_read |-> U32(0)]
    /\ overflow_checks \in BOOLEAN
    /\ ret = [res |-> "None", blockaddr |-> None, read_issued |-> FALSE,
               depth |-> 0, before |-> U32(0)]
    /\ ok_reads = 0
    /\ calls = 0

\* G_DBUF_INFO starts {Playing, Empty}; the stream is started on G_DBUF[0]
\* with G_DBUF[1] as its double buffer, so the output begins reading
\* G_DBUF[0], the slot assumed primed.
EngineInit ==
    /\ buf_states = [i \in 0..1 |-> IF i = 0 THEN "Playing" ELSE "Empty"]
    /\ pc = "scan"
    /\ fill_indx = None
    /\ blk = 0
    /\ payload = [i \in 0..1 |-> IF i = 0 THEN [content |-> "primed", played |-> TRUE]
                                        ELSE [content |-> "unfilled", played |-> FALSE]]
    /\ dma_mem = [i \in 0..1 |-> i]
    /\ dma_ct = 0
    /\ tc_flag = FALSE
    /\ fe_flag = FALSE
    /\ play = [buf |-> 0, content |-> "primed", replay |-> FALSE]
    /\ fill_failed = [i \in 0..1 |-> FALSE]

\* No container file is being parsed.
FsIdle ==
    /\ riff = [phase |-> "idle"]
    /\ vol = [phase |-> "idle"]
    /\ samples = [phase |-> "idle"]

Init ==
    /\ WavInit
    /\ EngineInit
    /\ event = "init"
    /\ FsIdle

----------------------------------------------------------------------------
(* The call of get_next_pcm_block, as it changes the cursor *)

\* What is kept of a call's outcome r on cursor w: the result, the block
\* address read, the recursion depth and the consumed-count before the call.
Outcome(r, w) ==
    [res |-> r.res, blockaddr |-> r.blockaddr, read_issued |-> r.read_issued,
     depth |-> r.depth, before |-> w.bytes_read]

\* CallGetNextPcmBlock with a block consumed by a call that returned Err
CallGetNextPcmBlock_ConsumeOnErr(r) ==
    /\ wav' = IF r.res = "Err"
              THEN [r.wav EXCEPT !.bytes_read = U32Add(@, U32(BLOCK_SIZE)).val]
              ELSE r.wav
    /\ ret' = Outcome(r, wav)
    /\ ok_reads' = IF r.res = "Ok" THEN ok_reads + 1 ELSE ok_reads

\* CallGetNextPcmBlock with the cursor left as it was before the call
CallGetNextPcmBlock_NoAdvance(r) ==
    /\ wav' = wav
    /\ ret' = Outcome(r, wav)
    /\ ok_reads' = IF r.res = "Ok" THEN ok_reads + 1 ELSE ok_reads

CallGetNextPcmBlock(r) ==
    /\ wav' = r.wav
    /\ ret' = Outcome(r, wav)
    /\ ok_reads' = IF r.res = "Ok" THEN ok_reads + 1 ELSE ok_reads

----------------------------------------------------------------------------
(* main.rs: the DMA stream in double-buffer mode *)

\* The buffer the output is reading.
DmaReading == dma_mem[dma_ct]

\* Transfer::next_transfer(new_buf) on a double-buffered stream: refused
\* (NotReady) unless the transfer-complete flag is set; otherwise new_buf
\* replaces the memory address of the target the stream is not reading, to be
\* read after the transfer in progress.
next_transfer(new_buf) ==
    IF tc_flag
    THEN [ok |-> TRUE, mem |-> [dma_mem EXCEPT ![1 - dma_ct] = new_buf]]
    ELSE [ok |-> FALSE, mem |-> dma_mem]

\* The stream finishes the buffer it was reading: it switches to its other
\* memory target at once and raises transfer-complete.  The interrupt is
\* served before the next buffer ends (a buffer lasts milliseconds, the
\* critical sections of main a few instructions).
DmaTransferComplete ==
    /\ ~tc_flag
    /\ LET nb == dma_mem[1 - dma_ct]
       IN  /\ play' = IF nb = SILENCE_BUFFER
                      THEN [buf |-> nb, content |-> "silence", replay |-> FALSE]
                      ELSE [buf |-> nb, content |-> payload[nb].content,
                            replay |-> payload[nb].played]
           /\ payload' = IF nb = SILENCE_BUFFER THEN payload
                         ELSE [payload EXCEPT ![nb].played = TRUE]
    /\ dma_ct' = 1 - dma_ct
    /\ tc_flag' = TRUE
    /\ event' = "dma_tc"
    /\ UNCHANGED <<buf_states, pc, fill_indx, blk, wav, overflow_checks, ret,
                   ok_reads, calls, dma_mem, fe_flag, fill_failed>>
    /\ UNCHANGED fs_vars

\* The stream reports a FIFO error; its interrupt is enabled as well
\* (fifo_error_interrupt(true)), so the handler also runs without a
\* completed transfer.
DmaFifoError ==
    /\ ~fe_flag
    /\ fe_flag' = TRUE
    /\ event' = "dma_fe"
    /\ UNCHANGED <<buf_states, pc, fill_indx, blk, wav, overflow_checks, ret,
                   ok_reads, calls, payload, dma_mem, dma_ct, tc_flag, play,
                   fill_failed>>
    /\ UNCHANGED fs_vars

----------------------------------------------------------------------------
(* main.rs: the interrupt handler DMA1_STREAM4 (the consumer) *)

\* DMA1_STREAM4 without the write of Empty to the complementary slot
DMA1_STREAM4_NoRetire ==
    /\ tc_flag \/ fe_flag
    /\ LET play_indx == find_buffer(buf_states, "Filled")
       IN  IF play_indx # None
           THEN LET result == next_transfer(play_indx)
                IN  IF result.ok
                    THEN /\ dma_mem' = result.mem
                         /\ buf_states' = [buf_states EXCEPT ![play_indx] = "Playing"]
                    ELSE UNCHANGED <<dma_mem, buf_states>>
           ELSE /\ dma_mem' = IF tc_flag THEN next_transfer(SILENCE_BUFFER).mem
                              ELSE dma_mem
                /\ UNCHANGED buf_states
    /\ tc_flag' = FALSE
    /\ fe_flag' = FALSE
    /\ event' = "isr"
    /\ UNCHANGED <<pc, fill_indx, blk, wav, overflow_checks, ret, ok_reads, calls,
                   payload, dma_ct, play, fill_failed>>
    /\ UNCHANGED fs_vars

\* DMA1_STREAM4 without the silence fallback: an underrun leaves the targets
DMA1_STREAM4_NoSilence ==
    /\ tc_flag \/ fe_flag
    /\ LET play_indx == find_buffer(buf_states, "Filled")
       IN  IF play_indx # None
           THEN LET result == next_transfer(play_indx)
                IN  IF result.ok
                    THEN /\ dma_mem' = result.mem
                         /\ buf_states' = [buf_states EXCEPT ![play_indx] = "Playing",
                                                              ![1 - play_indx] = "Empty"]
                    ELSE UNCHANGED <<dma_mem, buf_states>>
           ELSE UNCHANGED <<dma_mem, buf_states>>
    /\ tc_flag' = FALSE
    /\ fe_flag' = FALSE
    /\ event' = "isr"
    /\ UNCHANGED <<pc, fill_indx, blk, wav, overflow_checks, ret, ok_reads, calls,
                   payload, dma_ct, play, fill_failed>>
    /\ UNCHANGED fs_vars

\* Runs when an interrupt of the stream is pending, as one step: it is an
\* interrupt handler and its body is inside interrupt::free.
DMA1_STREAM4 ==
    /\ tc_flag \/ fe_flag
    /\ LET play_indx == find_buffer(buf_states, "Filled")
       IN  IF play_indx # None
           THEN LET result == next_transfer(play_indx)
                IN  IF result.ok
                    THEN /\ dma_mem' = result.mem
                         /\ buf_states' = [buf_states EXCEPT ![play_indx] = "Playing",
                                                              ![1 - play_indx] = "Empty"]
                    ELSE UNCHANGED <<dma_mem, buf_states>>
           ELSE /\ dma_mem' = IF tc_flag THEN next_transfer(SILENCE_BUFFER).mem
                              ELSE dma_mem
                /\ UNCHANGED buf_states
    /\ tc_flag' = FALSE
    /\ fe_flag' = FALSE
    /\ event' = "isr"
    /\ UNCHANGED <<pc, fill_indx, blk, wav, overflow_checks, ret, ok_reads, calls,
                   payload, dma_ct, play, fill_failed>>
    /\ UNCHANGED fs_vars

----------------------------------------------------------------------------
(* main.rs: the producer, the 'main loop of main *)

\* First critical section: look for an Empty buffer.  With none found the
\* loop starts over.
FindBufferToFill ==
    /\ pc = "scan"
    /\ fill_indx' = find_buffer(buf_states, "Empty")
    /\ pc' = IF fill_indx' # None THEN "claim" ELSE "scan"
    /\ event' = "scan"
    /\ UNCHANGED <<buf_states, blk, wav, overflow_checks, ret, ok_reads, calls,
                   payload, dma_mem, dma_ct, tc_flag, fe_flag, play, fill_failed>>
    /\ UNCHANGED fs_vars

\* Second critical section: mark the buffer found Filling.
UpdateStateFilling ==
    /\ pc = "claim"
    /\ buf_states' = [buf_states EXCEPT ![fill_indx] = "Filling"]
    /\ fill_failed' = [fill_failed EXCEPT ![fill_indx] = FALSE]
    /\ blk' = 0
    /\ pc' = "read"
    /\ event' = "claim"
    /\ UNCHANGED <<fill_indx, wav, overflow_checks, ret, ok_reads, calls, payload,
                   dma_mem, dma_ct, tc_flag, fe_flag, play>>
    /\ UNCHANGED fs_vars

\* AfterRead with the Err arm falling through to the rest of the loop body
AfterRead_ErrFallsThrough(res) ==
    CASE res = "Ok" -> "fill"
      [] res = "Err" -> "fill"
      [] res = "Panic" -> "panicked"
      [] OTHER -> "diverged"

\* Where main goes after a call of get_next_pcm_block that ended res.
AfterRead(res) ==
    CASE res = "Ok" -> "fill"
      [] res = "Err" -> "scan"
      [] res = "Panic" -> "panicked"
      [] OTHER -> "diverged"

\* One iteration of the for loop, up to the match: Err is `continue 'main`,
\* which leaves the buffer as it is and starts the loop over.
GetPcmBlock ==
    /\ pc = "read"
    /\ \E io_ok \in BOOLEAN :
          LET r == get_next_pcm_block(wav, io_ok, overflow_checks, 0)
          IN  /\ CallGetNextPcmBlock(r)
              /\ pc' = AfterRead(r.res)
              /\ fill_failed' = IF r.res = "Err"
                                THEN [fill_failed EXCEPT ![fill_indx] = TRUE]
                                ELSE fill_failed
              /\ event' = IF r.res = "Err" THEN "read_err" ELSE "read"
    /\ UNCHANGED <<buf_states, fill_indx, blk, overflow_checks, calls, payload,
                   dma_mem, dma_ct, tc_flag, fe_flag, play>>
    /\ UNCHANGED fs_vars

\* The copy loop starts to write the block's samples into G_DBUF[fill_indx].
FillBufBegin ==
    /\ pc = "fill"
    /\ payload' = [payload EXCEPT ![fill_indx] = [content |-> "partial", played |-> FALSE]]
    /\ pc' = "filling"
    /\ event' = "fill_begin"
    /\ UNCHANGED <<buf_states, fill_indx, blk, wav, overflow_checks, ret, ok_reads,
                   calls, dma_mem, dma_ct, tc_flag, fe_flag, play, fill_failed>>
    /\ UNCHANGED fs_vars

\* The copy loop ends; the for loop goes on to its next block or is over.
FillBufEnd ==
    /\ pc = "filling"
    /\ blk' = blk + 1
    /\ payload' = IF blk' = BUF_BLOCKS
                  THEN [payload EXCEPT ![fill_indx].content = "full"]
                  ELSE payload
    /\ pc' = IF blk' = BUF_BLOCKS THEN "publish" ELSE "read"
    /\ event' = "fill_end"
    /\ UNCHANGED <<buf_states, fill_indx, wav, overflow_checks, ret, ok_reads,
                   calls, dma_mem, dma_ct, tc_flag, fe_flag, play, fill_failed>>
    /\ UNCHANGED fs_vars

\* UpdateStateFilled without the write of Filled
UpdateStateFilled_NoPublish ==
    /\ pc = "publish"
    /\ pc' = "scan"
    /\ event' = "publish"
    /\ UNCHANGED <<buf_states, fill_indx, blk, wav, overflow_checks, ret, ok_reads,
                   calls, payload, dma_mem, dma_ct, tc_flag, fe_flag, play,
                   fill_failed>>
    /\ UNCHANGED fs_vars

\* Third critical section: mark the buffer Filled.
UpdateStateFilled ==
    /\ pc = "publish"
    /\ buf_states' = [buf_states EXCEPT ![fill_indx] = "Filled"]
    /\ pc' = "scan"
    /\ event' = "publish"
    /\ UNCHANGED <<fill_indx, blk, wav, overflow_checks, ret, ok_reads, calls,
                   payload, dma_mem, dma_ct, tc_flag, fe_flag, play, fill_failed>>
    /\ UNCHANGED fs_vars

Producer ==
    \/ FindBufferToFill
    \/ UpdateStateFilling
    \/ GetPcmBlock
    \/ FillBufBegin
    \/ FillBufEnd
    \/ UpdateStateFilled

Next ==
    \/ Producer
    \/ DmaTransferComplete
    \/ DmaFifoError
    \/ DMA1_STREAM4

Spec == Init /\ [][Next]_vars

\* The canonical file layout: the data payload starts at byte 44.
FairInit == Init /\ wav.first_byte = U32(44)

\* main runs whenever no interrupt is being served, the stream keeps
\* completing buffers and every pending interrupt is served.  Behaviours
\* start from the canonical file layout.
FairSpec ==
    /\ FairInit
    /\ [][Next]_vars
    /\ WF_vars(Producer)
    /\ WF_vars(DmaTransferComplete)
    /\ WF_vars(DMA1_STREAM4)

\* FairSpec on the debug build only: with the payload at byte 44 no u32
\* operation of the block reader overflows, so the build makes no difference.
LiveInit == FairInit /\ overflow_checks

LiveSpec ==
    /\ LiveInit
    /\ [][Next]_vars
    /\ WF_vars(Producer)
    /\ WF_vars(DmaTransferComplete)
    /\ WF_vars(DMA1_STREAM4)

----------------------------------------------------------------------------
(* The block reader on its own: any sequence of calls on a cursor *)

ReadNextBlock ==
    /\ calls < MaxCalls
    /\ ret.res \notin {"Panic", "Diverge"}
    /\ \E io_ok \in BOOLEAN :
          CallGetNextPcmBlock(get_next_pcm_block(wav, io_ok, overflow_checks, 0))
    /\ calls' = calls + 1
    /\ event' = "call"
    /\ UNCHANGED <<overflow_checks>>
    /\ UNCHANGED engine_vars
    /\ UNCHANGED fs_vars

WavNext == ReadNextBlock

WavSpec == Init /\ [][WavNext]_vars

----------------------------------------------------------------------------
(***************************************************************************)
(* bytes.rs, block_device.rs: blocks of a file and the sections read from  *)
(* them.  A file is the sequence of its bytes; it lies in consecutive      *)
(* blocks of the device from its first block on, and the device holds      *)
(* zeroes after the file's last byte.                                      *)
(***************************************************************************)

\* The byte at offset o of the file (offsets start at 0).
FileByte(file, o) == IF o < Len(file) THEN file[o + 1] ELSE 0

Zeros(n) == [i \in 1..n |-> 0]

\* block_device.read_block: block number rel_block of the file, that is the
\* BLOCK_SIZE bytes from offset rel_block * BLOCK_SIZE on.
read_block(file, rel_block) ==
    LET first == rel_block * BLOCK_SIZE
    IN  IF first + BLOCK_SIZE <= Len(file)
        THEN SubSeq(file, first + 1, first + BLOCK_SIZE)
        ELSE IF first >= Len(file) THEN Zeros(BLOCK_SIZE)
        ELSE SubSeq(file, first + 1, Len(file))
             \o Zeros(first + BLOCK_SIZE - Len(file))

\* Bytes::get_bytes_section::<N>: N bytes from start_byte on; what lies past
\* the end of the array is zero.
get_bytes_section(bytes, start_byte, N) ==
    [i \in 1..N |-> IF start_byte + i <= Len(bytes) THEN bytes[start_byte + i]
                    ELSE 0]

\* Bytes::decode_ascii::<N>: the bytes skip_bytes .. skip_bytes + N - 1 that
\* exist, each as a char.  A byte above 0x7f becomes a two-byte char, and
\* collecting more than N bytes into String<N> panics.
decode_ascii(bytes, skip_bytes, N) ==
    LET last  == IF skip_bytes + N <= Len(bytes) THEN skip_bytes + N
                 ELSE Len(bytes)
        chars == SubSeq(bytes, skip_bytes + 1, last)
        wide  == Cardinality({i \in 1..Len(chars) : chars[i] > 127})
    IN  [panic |-> Len(chars) + wide > N, str |-> chars]

\* u16::from_le_bytes, u32::from_le_bytes.  The files of this model keep the
\* top byte of every 4-byte field below 0x80.
from_le_bytes(b) ==
    IF Len(b) = 2 THEN b[1] + 256 * b[2]
    ELSE b[1] + 256 * b[2] + 65536 * b[3] + 16777216 * b[4]

\* The inverse, used to write the files.
to_le_bytes(n, width) ==
    [i \in 1..width |-> (n \div (256 ^ (i - 1))) % 256]

(***************************************************************************)
(* riff.rs: the chunk walk                                                 *)
(***************************************************************************)

\* Chunk identifiers, as their ASCII codes.
ID_RIFF == <<82, 73, 70, 70>>
ID_WAVE == <<87, 65, 86, 69>>
ID_LIST == <<76, 73, 83, 84>>
ID_fmt  == <<102, 109, 116, 32>>
ID_data == <<100, 97, 116, 97>>
ID_JUNK == <<74, 85, 78, 75>>
ID_INFO == <<73, 78, 70, 79>>
ID_ISFT == <<73, 83, 70, 84>>

\* Mutant of NextChunkOffset: container headers are stepped over like any
\* other chunk.
NextChunkOffset_SkipContainers(start, identifier, length) ==
    start + 8 + length

\* The offset of the chunk after one that starts at start (new_next_chunk).
NextChunkOffset(start, identifier, length) ==
    IF identifier = ID_RIFF \/ identifier = ID_LIST THEN start + 8
    ELSE IF identifier = ID_WAVE THEN start + 4
    ELSE start + 8 + length

\* ChunkInfo::get_next_chunk.  The block read is the one at
\* start_block_address + offset_blocks, block offset_blocks of the file.
get_next_chunk(self, file, io_ok) ==
    IF ~io_ok THEN [res |-> "Err"]
    ELSE
    LET offset_blocks       == self.next_chunk \div BLOCK_SIZE
        relevant_block      == read_block(file, offset_blocks)
        next_chunk_in_block == self.next_chunk - offset_blocks * BLOCK_SIZE
        identifier == decode_ascii(relevant_block, next_chunk_in_block, 4)
        length     == from_le_bytes(
                          get_bytes_section(relevant_block,
                                            next_chunk_in_block + 4, 4))
    IN  IF identifier.panic THEN [res |-> "Panic"]
        ELSE [res         |-> "Ok",
              identifier  |-> identifier.str,
              length      |-> length,
              chunk_start |-> self.next_chunk,
              next_chunk  |-> NextChunkOffset(self.next_chunk, identifier.str,
                                              length)]

\* The start chunk of get_first_chunk.
start_chunk ==
    [res |-> "Ok", identifier |-> <<>>, length |-> 0, chunk_start |-> 0,
     next_chunk |-> 0]

get_first_chunk(file, io_ok) == get_next_chunk(start_chunk, file, io_ok)

(***************************************************************************)
(* wav.rs: WavFile::new                                                    *)
(***************************************************************************)

\* Format::decode_format
decode_format(format_code) ==
    IF format_code = 1 THEN "Pcm"
    ELSE IF format_code = 3 THEN "IeeeFloat"
    ELSE IF format_code = 6 THEN "Alaw"
    ELSE IF format_code = 7 THEN "Alaw"
    ELSE "Other"

\* The descriptor WavFile::new starts from.
EmptyWavFile ==
    [start_block_address |-> 64, data_length |-> 0, first_byte |-> 0,
     bytes_read |-> 0, format |-> "Other", n_channels |-> 0,
     sample_rate |-> 0, byte_rate |-> 0, block_align |-> 0,
     bits_per_sample |-> 0, bytes_per_channel |-> 0]

\* The fmt branch of the loop: the fields are taken from the first block of
\* the file at the chunk's offset.
ReadFormat(wav_file, file, chunk_start) ==
    LET first_block     == read_block(file, 0)
        format_code     == from_le_bytes(get_bytes_section(first_block, chunk_start + 8, 2))
        n_channels      == from_le_bytes(get_bytes_section(first_block, chunk_start + 10, 2))
        sample_rate     == from_le_bytes(get_bytes_section(first_block, chunk_start + 12, 4))
        byte_rate       == from_le_bytes(get_bytes_section(first_block, chunk_start + 16, 4))
        block_align     == from_le_bytes(get_bytes_section(first_block, chunk_start + 20, 2))
        bits_per_sample == from_le_bytes(get_bytes_section(first_block, chunk_start + 22, 2))
    IN  IF n_channels = 0 THEN [res |-> "Panic"]
        ELSE [res |-> "Ok",
              wav_file |-> [wav_file EXCEPT
                  !.format            = decode_format(format_code),
                  !.n_channels        = n_channels,
                  !.sample_rate       = sample_rate,
                  !.byte_rate         = byte_rate,
                  !.block_align       = block_align,
                  !.bits_per_sample   = bits_per_sample,
                  !.bytes_per_channel = block_align \div n_channels]]

\* Mutant of DataFound: a data chunk completes the descriptor whether or
\* not a fmt chunk came before it.
DataFound_Alone(current_chunk, wav_file, found_format_chunk) ==
    [res |-> "Ok",
     wav_file |-> [wav_file EXCEPT
         !.first_byte  = current_chunk.chunk_start + 8,
         !.data_length = current_chunk.length]]

\* The data branch of the loop, which leaves the loop, and the test after
\* the loop.
DataFound(current_chunk, wav_file, found_format_chunk) ==
    IF found_format_chunk
    THEN [res |-> "Ok",
          wav_file |-> [wav_file EXCEPT
              !.first_byte  = current_chunk.chunk_start + 8,
              !.data_length = current_chunk.length]]
    ELSE [res |-> "Err"]

\* The loop `for _ in 0..10` of WavFile::new and the test that follows it,
\* from iteration i on.  reads counts the block reads made so far; the read
\* numbered fail_at fails (None: no read fails).
RECURSIVE NewLoop(_, _, _, _, _, _, _)
NewLoop(i, current_chunk, wav_file, found_format_chunk, reads, file, fail_at) ==
    IF i = 10 THEN [res |-> "Err"]
    ELSE IF current_chunk.identifier = ID_data THEN
        DataFound(current_chunk, wav_file, found_format_chunk)
    ELSE
    LET is_fmt == current_chunk.identifier = ID_fmt
        fmt    == ReadFormat(wav_file, file, current_chunk.chunk_start)
        reads2 == IF is_fmt THEN reads + 1 ELSE reads
        next   == get_next_chunk(current_chunk, file, fail_at # reads2)
    IN  IF is_fmt /\ fail_at = reads THEN [res |-> "Err"]
        ELSE IF is_fmt /\ fmt.res # "Ok" THEN [res |-> fmt.res]
        ELSE IF next.res # "Ok" THEN [res |-> next.res]
        ELSE NewLoop(i + 1, next,
                     IF is_fmt THEN fmt.wav_file ELSE wav_file,
                     found_format_chunk \/ is_fmt, reads2 + 1, file, fail_at)

\* WavFile::new on a file: "Ok" with the descriptor, "Err", or "Panic".
WavFile_new(file, fail_at) ==
    LET first == get_first_chunk(file, fail_at # 0)
    IN  IF first.res # "Ok" THEN [res |-> first.res]
        ELSE NewLoop(0, first, EmptyWavFile, FALSE, 1, file, fail_at)

(***************************************************************************)
(* RIFF files                                                              *)
(***************************************************************************)

RECURSIVE Repeat(_, _)
Repeat(seq, n) == IF n = 0 THEN <<>> ELSE seq \o Repeat(seq, n - 1)

\* A chunk: identifier, declared length, payload.
Chunk(identifier, chunk_payload) ==
    identifier \o to_le_bytes(Len(chunk_payload), 4) \o chunk_payload

\* A 16-byte fmt payload: PCM, 44100 Hz, 16 bits per sample.
FmtPayload(channels) ==
    to_le_bytes(1, 2) \o to_le_bytes(channels, 2) \o to_le_bytes(44100, 4)
    \o to_le_bytes(44100 * 2 * channels, 4) \o to_le_bytes(2 * channels, 2)
    \o to_le_bytes(16, 2)

FmtChunk(channels) == Chunk(ID_fmt, FmtPayload(channels))

DataChunk == Chunk(ID_data, Zeros(300))

JunkChunk(n) == Chunk(ID_JUNK, Zeros(n))

\* A LIST chunk of form INFO with one sub-chunk.
ListChunk == Chunk(ID_LIST, ID_INFO \o Chunk(ID_ISFT, <<65, 0>>))

LayoutNames ==
    {"fmt_data", "data_fmt", "fmt", "data", "fmt_list_data",
     "junk_fmt_data", "fmt_junk_data"}

Padded == {"junk_fmt_data", "fmt_junk_data"}

\* The chunks after the WAVE tag and after the leading empty chunks.
Body(name, pad, channels) ==
    CASE name = "fmt_data"      -> FmtChunk(channels) \o DataChunk
      [] name = "data_fmt"      -> DataChunk \o FmtChunk(channels)
      [] name = "fmt"           -> FmtChunk(channels)
      [] name = "data"          -> DataChunk
      [] name = "fmt_list_data" -> FmtChunk(channels) \o ListChunk \o DataChunk
      [] name = "junk_fmt_data" -> JunkChunk(pad) \o FmtChunk(channels) \o DataChunk
      [] name = "fmt_junk_data" -> FmtChunk(channels) \o JunkChunk(pad) \o DataChunk

\* RIFF header, WAVE tag, junk empty chunks, then the body.
RiffFile(name, junk, pad, channels) ==
    LET chunks == Repeat(JunkChunk(0), junk) \o Body(name, pad, channels)
    IN  ID_RIFF \o to_le_bytes(4 + Len(chunks), 4) \o ID_WAVE \o chunks

\* Payload lengths of the padding chunk: they put the chunk after it before,
\* across and beyond the end of the first block.
PadLengths == {464 + 6 * k : k \in 0..MaxPadSteps}

(***************************************************************************)
(* The container reader on its own: a file is put on the device, then      *)
(* either walked chunk by chunk or opened with WavFile::new.               *)
(***************************************************************************)

RiffFiles ==
    {[phase |-> "loaded", name |-> name, junk |-> junk, pad |-> pad,
      channels |-> channels, file |-> RiffFile(name, junk, pad, channels),
      chunk |-> start_chunk, prev |-> start_chunk, hops |-> 0,
      walk |-> "Ok", opened |-> [res |-> "None"], fail_at |-> None] :
        name \in LayoutNames, junk \in 0..MaxJunk,
        pad \in PadLengths \cup {0}, channels \in 0..2}

\* The player is at rest on an empty cursor, in either build.
PlayerAtRest ==
    /\ WavInit
    /\ wav.first_byte = U32(44)
    /\ wav.data_length = U32(0)
    /\ EngineInit
    /\ event = "init"

PlayerIdle == PlayerAtRest /\ overflow_checks

RiffInit ==
    /\ PlayerIdle
    /\ vol = [phase |-> "idle"]
    /\ samples = [phase |-> "idle"]
    /\ riff \in {f \in RiffFiles : (f.pad # 0) <=> (f.name \in Padded)}

\* The walk takes the step whose outcome is next: the new chunk becomes the
\* current one, and a failed step ends the walk.
WalkStep(next) ==
    riff' = IF next.res = "Ok"
            THEN [riff EXCEPT !.phase = "walking", !.prev = riff.chunk,
                              !.chunk = next, !.hops = riff.hops + 1]
            ELSE [riff EXCEPT !.phase = "stopped", !.walk = next.res]

GetFirstChunk ==
    /\ riff.phase = "loaded"
    /\ \E io_ok \in BOOLEAN : WalkStep(get_first_chunk(riff.file, io_ok))
    /\ UNCHANGED <<player_vars, vol, samples>>

GetNextChunk ==
    /\ riff.phase = "walking"
    /\ riff.hops < MaxHops
    /\ \E io_ok \in BOOLEAN :
          WalkStep(get_next_chunk(riff.chunk, riff.file, io_ok))
    /\ UNCHANGED <<player_vars, vol, samples>>

WavFileNew ==
    /\ riff.phase = "loaded"
    /\ \E fail_at \in {None} \cup 0..MaxHops :
          riff' = [riff EXCEPT !.phase = "opened", !.fail_at = fail_at,
                               !.opened = WavFile_new(riff.file, fail_at)]
    /\ UNCHANGED <<player_vars, vol, samples>>

RiffNext == GetFirstChunk \/ GetNextChunk \/ WavFileNew

RiffSpec == RiffInit /\ [][RiffNext]_vars

(***************************************************************************)
(* The format code on its own: a code as the fmt chunk holds it, in two    *)
(* bytes, then its decoding.                                               *)
(***************************************************************************)

FormatCodes == 0..MaxFormatCode \cup {65534, 65535}

FormatInit ==
    /\ PlayerIdle
    /\ vol = [phase |-> "idle"]
    /\ samples = [phase |-> "idle"]
    /\ \E code \in FormatCodes :
          riff = [phase |-> "code", bytes |-> to_le_bytes(code, 2),
                  format |-> "None"]

\* The format code is taken from its bytes and decoded, as in the fmt
\* branch of WavFile::new.
DecodeFormat ==
    /\ riff.phase = "code"
    /\ riff' = [riff EXCEPT !.phase = "decoded",
                            !.format = decode_format(from_le_bytes(riff.bytes))]
    /\ UNCHANGED <<player_vars, vol, samples>>

FormatNext == DecodeFormat

FormatSpec == FormatInit /\ [][FormatNext]_vars


(***************************************************************************)
(* exfat.rs: get_boot_sector                                               *)
(***************************************************************************)

\* Where the boot sector is looked for, in this order.
TRY_BOOT_SECOTRS == <<0, 65536, 32768, 2048>>

\* "EXFAT   "
FILESYSTEM_NAME == <<69, 88, 70, 65, 84, 32, 32, 32>>

BOOT_SIGNATURE == <<85, 170>>

\* A sector with the given 8 bytes from offset name_at on and the given two
\* bytes at its end, zero elsewhere.
SectorWith(name, name_at, signature) ==
    [i \in 1..BLOCK_SIZE |->
        IF i - 1 \in name_at..(name_at + 7) THEN name[i - name_at]
        ELSE IF i - 1 >= BLOCK_SIZE - 2 THEN signature[i - (BLOCK_SIZE - 2)]
        ELSE 0]

\* What a candidate sector may hold.
SectorKinds == {"boot", "bad_signature", "other_name", "name_at_0", "blank"}

SectorBytes(kind) ==
    CASE kind = "boot"          -> SectorWith(FILESYSTEM_NAME, 3, BOOT_SIGNATURE)
      [] kind = "bad_signature" -> SectorWith(FILESYSTEM_NAME, 3, <<85, 0>>)
      [] kind = "other_name"    -> SectorWith(<<78, 84, 70, 83, 32, 32, 32, 32>>, 3,
                                              BOOT_SIGNATURE)
      [] kind = "name_at_0"     -> SectorWith(FILESYSTEM_NAME, 0, BOOT_SIGNATURE)
      [] kind = "blank"         -> Zeros(BLOCK_SIZE)

\* Mutant of BootLoop: a candidate with the name and without the signature
\* is passed over.
RECURSIVE BootLoop_PassOver(_, _, _)
BootLoop_PassOver(i, image, failing) ==
    IF i > Len(TRY_BOOT_SECOTRS) THEN [res |-> "Err", error |-> "NoBootSector"]
    ELSE
    LET boot_sector == TRY_BOOT_SECOTRS[i]
        sector      == SectorBytes(image[i])
    IN  IF boot_sector \in failing THEN [res |-> "Err", error |-> "ReadFail"]
        ELSE IF /\ get_bytes_section(sector, 3, 8) = FILESYSTEM_NAME
                /\ get_bytes_section(sector, 510, 2) = BOOT_SIGNATURE
        THEN [res |-> "Ok", sector |-> sector, address |-> boot_sector]
        ELSE BootLoop_PassOver(i + 1, image, failing)

\* The loop of get_boot_sector from the i-th candidate on.  image[i] is what
\* the i-th candidate sector holds; the reads of the sectors in failing fail.
\* The result carries the address the returned sector was read from.
RECURSIVE BootLoop(_, _, _)
BootLoop(i, image, failing) ==
    IF i > Len(TRY_BOOT_SECOTRS) THEN [res |-> "Err", error |-> "NoBootSector"]
    ELSE
    LET boot_sector == TRY_BOOT_SECOTRS[i]
        sector      == SectorBytes(image[i])
    IN  IF boot_sector \in failing THEN [res |-> "Err", error |-> "ReadFail"]
        ELSE IF get_bytes_section(sector, 3, 8) = FILESYSTEM_NAME
        THEN IF get_bytes_section(sector, 510, 2) = BOOT_SIGNATURE
             THEN [res |-> "Ok", sector |-> sector, address |-> boot_sector]
             ELSE [res |-> "Err", error |-> "InvalidBootSignature"]
        ELSE BootLoop(i + 1, image, failing)

get_boot_sector(image, failing) == BootLoop(1, image, failing)

(***************************************************************************)
(* The boot sector search on its own: a device image, then one search.     *)
(***************************************************************************)

Candidates == 1..Len(TRY_BOOT_SECOTRS)

BootInit ==
    /\ PlayerIdle
    /\ riff = [phase |-> "idle"]
    /\ samples = [phase |-> "idle"]
    /\ \E image \in [Candidates -> SectorKinds],
          failing \in SUBSET {TRY_BOOT_SECOTRS[i] : i \in Candidates} :
          vol = [phase |-> "image", image |-> image, failing |-> failing,
                 found |-> [res |-> "None"]]

GetBootSector ==
    /\ vol.phase = "image"
    /\ vol' = [vol EXCEPT !.phase = "searched",
                          !.found = get_boot_sector(vol.image, vol.failing)]
    /\ UNCHANGED <<player_vars, riff, samples>>

BootNext == GetBootSector

BootSpec == BootInit /\ [][BootNext]_vars


(***************************************************************************)
(* exfat.rs: calc_cluster_sector                                           *)
(***************************************************************************)

\* Mutant of calc_cluster_sector: clusters are counted from 0.
calc_cluster_sector_FromZero(self, cluster, checks) ==
    LET base    == U32Add(self.partition_offset.lo, self.cluster_heap_offset)
        shift   == self.sectors_per_cluster_shift
        in_heap == U32MulPow2(cluster, shift % 32)
        sector  == U32Add(base.val, in_heap.val)
    IN  IF checks /\ (base.overflow \/ shift >= 32 \/ in_heap.overflow
                      \/ sector.overflow)
        THEN [res |-> "Panic"]
        ELSE [res |-> "Ok", sector |-> sector.val]

\* ExFat::calc_cluster_sector.  partition_offset is a u64, kept as its high
\* and low 32 bits; `as u32` takes the low ones.  The sum, the difference,
\* the shift and the product are u32 operations, each of which panics on
\* overflow in a build with overflow checks and wraps in one without (a shift
\* amount of 32 or more is then taken modulo 32).
calc_cluster_sector(self, cluster, checks) ==
    LET base    == U32Add(self.partition_offset.lo, self.cluster_heap_offset)
        index   == U32Sub(cluster, U32(2))
        shift   == self.sectors_per_cluster_shift
        in_heap == U32MulPow2(index.val, shift % 32)
        sector  == U32Add(base.val, in_heap.val)
    IN  IF checks /\ (base.overflow \/ index.overflow \/ shift >= 32
                      \/ in_heap.overflow \/ sector.overflow)
        THEN [res |-> "Panic"]
        ELSE [res |-> "Ok", sector |-> sector.val]

(***************************************************************************)
(* The cluster computation on its own: a volume geometry, then calls.      *)
(***************************************************************************)

\* Partition offsets: 0, 2048, 2^32 - 4096 and 2^32 + 2048.
PartitionOffsets ==
    {[hi |-> U32(0), lo |-> U32(0)], [hi |-> U32(0), lo |-> U32(2048)],
     [hi |-> U32(0), lo |-> <<65535, 61440>>],
     [hi |-> U32(1), lo |-> U32(2048)]}

ClusterHeapOffsets == {U32(4), U32(8192)}

SectorsPerClusterShifts == {0, 3, 16, 33}

ClusterNumbers ==
    {U32(c) : c \in 0..MaxCluster} \cup {U32(65534 + c) : c \in 0..MaxCluster}

ClusterInit ==
    /\ PlayerAtRest
    /\ riff = [phase |-> "idle"]
    /\ samples = [phase |-> "idle"]
    /\ \E po \in PartitionOffsets, cho \in ClusterHeapOffsets,
          shift \in SectorsPerClusterShifts :
          vol = [phase |-> "mounted", partition_offset |-> po,
                 cluster_heap_offset |-> cho,
                 sectors_per_cluster_shift |-> shift,
                 ncalls |-> 0,
                 prev |-> [res |-> "None"], cur |-> [res |-> "None"]]

\* One call; the volume remembers the last two calls and their results.
CalcClusterSector ==
    /\ vol.phase = "mounted"
    /\ vol.ncalls < MaxClusterCalls
    /\ vol.cur.res # "Panic"
    /\ \E cluster \in ClusterNumbers :
          vol' = [vol EXCEPT
                    !.ncalls = vol.ncalls + 1,
                    !.prev = vol.cur,
                    !.cur = [cluster |-> cluster] @@
                            calc_cluster_sector(vol, cluster, overflow_checks)]
    /\ UNCHANGED <<player_vars, riff, samples>>

ClusterNext == CalcClusterSector

ClusterSpec == ClusterInit /\ [][ClusterNext]_vars


(***************************************************************************)
(* exfat.rs: list_directory                                                *)
(*                                                                         *)
(* A directory entry is kept by its fields: the type byte, and for a file  *)
(* entry the secondary count and the attributes, for a stream extension    *)
(* the first cluster and the two lengths, for a file name entry its 15     *)
(* UTF-16 code units.  A sector holds 16 entries.  A name is the sequence  *)
(* of its chars (code points); String<255> bounds its UTF-8 length.        *)
(***************************************************************************)

DIRECTORY_ENTRIES_PER_SECTOR == BLOCK_SIZE \div 32

VOLUME_LABEL_ENTRY == 131

FILE_DIRECTORY_ENTRY == 133

STREAM_EXTENSION_ENTRY == 192

FILE_NAME_ENTRY == 193

DIR_LENGTH_LIMIT == 205

MAX_FILE_NAME_LENGTH == 255

\* char::len_utf8
len_utf8(c) ==
    IF c < 128 THEN 1 ELSE IF c < 2048 THEN 2 ELSE IF c < 65536 THEN 3 ELSE 4

\* String::len: the UTF-8 length of a name, one byte per char and one more
\* for each char from 0x80, from 0x800 and from 0x10000 on.
Utf8Len(name) ==
    Len(name) + Cardinality({i \in 1..Len(name) : name[i] >= 128})
              + Cardinality({i \in 1..Len(name) : name[i] >= 2048})
              + Cardinality({i \in 1..Len(name) : name[i] >= 65536})

IsHighSurrogate(u) == u >= 55296 /\ u <= 56319

IsLowSurrogate(u) == u >= 56320 /\ u <= 57343

\* `for char_result in decode_utf16(utf_iterator)` with the push of each
\* char to the name, from unit i on: the name with the chars added, or the
\* error.  A surrogate that is not the first half of a pair is an error, and
\* so is a char that does not fit the name's capacity.  len is the UTF-8
\* length of name.
RECURSIVE PushDecoded(_, _, _, _)
PushDecoded(units, i, name, len) ==
    IF i > Len(units) THEN [res |-> "Ok", name |-> name]
    ELSE
    LET u == units[i]
        paired == /\ IsHighSurrogate(u) /\ i < Len(units)
                  /\ IsLowSurrogate(units[i + 1])
        character == IF paired
                     THEN 65536 + (u - 55296) * 1024 + (units[i + 1] - 56320)
                     ELSE u
    IN  IF (IsHighSurrogate(u) \/ IsLowSurrogate(u)) /\ ~paired
        THEN [res |-> "Err", error |-> "ErrorDecodingName"]
        ELSE IF len + len_utf8(character) > MAX_FILE_NAME_LENGTH
        THEN [res |-> "Err", error |-> "ErrorDecodingName"]
        ELSE PushDecoded(units, IF paired THEN i + 2 ELSE i + 1,
                         Append(name, character), len + len_utf8(character))

\* Mutant of NonZero: every code unit is kept.
NonZero_KeepAll(units) == units

\* The code units of a file name entry that are not zero.
NonZero(units) == SelectSeq(units, LAMBDA u : u # 0)

\* FsEntry::new
FsEntry_new ==
    [name |-> <<>>, file_type |-> "Directory", first_cluster |-> 0,
     valid_data_length |-> 0, data_length |-> 0]

\* Mutant of FollowingLoop: a file name entry that does not decode is left
\* out of the name.
RECURSIVE FollowingLoop_SkipBadName(_, _, _)
FollowingLoop_SkipBadName(following, i, fs_entry) ==
    IF i > Len(following) THEN [res |-> "Ok", fs_entry |-> fs_entry]
    ELSE
    LET entry == following[i]
        decoded == PushDecoded(NonZero(entry.units), 1, fs_entry.name,
                               Utf8Len(fs_entry.name))
    IN  IF entry.type = FILE_NAME_ENTRY /\ decoded.res = "Ok"
        THEN FollowingLoop_SkipBadName(following, i + 1,
                 [fs_entry EXCEPT !.name = decoded.name])
        ELSE FollowingLoop_SkipBadName(following, i + 1, fs_entry)

\* The loop over following_entries_iter, from its i-th entry on.
RECURSIVE FollowingLoop(_, _, _)
FollowingLoop(following, i, fs_entry) ==
    IF i > Len(following) THEN [res |-> "Ok", fs_entry |-> fs_entry]
    ELSE
    LET entry == following[i]
    IN  IF entry.type = STREAM_EXTENSION_ENTRY
        THEN FollowingLoop(following, i + 1,
                 [fs_entry EXCEPT !.valid_data_length = entry.valid_data_length,
                                  !.data_length = entry.data_length,
                                  !.first_cluster = entry.first_cluster])
        ELSE IF entry.type = FILE_NAME_ENTRY
        THEN LET decoded == PushDecoded(NonZero(entry.units), 1, fs_entry.name,
                                        Utf8Len(fs_entry.name))
             IN  IF decoded.res = "Err" THEN decoded
                 ELSE FollowingLoop(following, i + 1,
                          [fs_entry EXCEPT !.name = decoded.name])
        ELSE FollowingLoop(following, i + 1, fs_entry)

\* An entry that holds nothing: the end-of-directory marker.
BlankEntry ==
    [type |-> 0, secondary_count |-> 0, file_attribute |-> 0,
     first_cluster |-> 0, valid_data_length |-> 0, data_length |-> 0,
     units |-> <<>>]

\* read_sector and slice_by: the 16 entries of the directory's sector
\* number sector_offset.  The device holds zeroes after the directory.
SectorEntries(dir, sector_offset) ==
    [i \in 1..DIRECTORY_ENTRIES_PER_SECTOR |->
        IF sector_offset * DIRECTORY_ENTRIES_PER_SECTOR + i <= Len(dir)
        THEN dir[sector_offset * DIRECTORY_ENTRIES_PER_SECTOR + i]
        ELSE BlankEntry]

\* Mutant of FollowingEntries: the lookahead stays within the sector of the
\* primary entry.
FollowingEntries_OneSector(dir_entries, next_sector_entries, entry_no, following_entries_no) ==
    LET last == entry_no + 1 + following_entries_no + 1
    IN  SubSeq(dir_entries, entry_no + 2,
               IF last <= Len(dir_entries) THEN last ELSE Len(dir_entries))

\* dir_entries.iter().chain(next_sector_entries.iter())
\*     .skip(entry_no + 1).take(following_entries_no + 1)
FollowingEntries(dir_entries, next_sector_entries, entry_no, following_entries_no) ==
    LET chain == dir_entries \o next_sector_entries
        last  == entry_no + 1 + following_entries_no + 1
    IN  SubSeq(chain, entry_no + 2,
               IF last <= Len(chain) THEN last ELSE Len(chain))

\* output_directory.push: a record beyond the capacity is not kept.
PushRecord(output_directory, fs_entry) ==
    IF Len(output_directory) < DIR_LENGTH_LIMIT
    THEN Append(output_directory, fs_entry)
    ELSE output_directory

\* `for (entry_no, entry_bytes) in dir_entries.iter().enumerate()` on sector
\* sector_offset, from entry entry_no on: an error, or the records so far
\* and whether the end-of-directory marker was met.  The reads of the
\* sectors in failing fail.
RECURSIVE EntryLoop(_, _, _, _, _)
EntryLoop(sector_offset, entry_no, output_directory, dir, failing) ==
    IF entry_no = DIRECTORY_ENTRIES_PER_SECTOR
    THEN [res |-> "Ok", found_all_entries |-> FALSE,
          output_directory |-> output_directory]
    ELSE
    LET dir_entries == SectorEntries(dir, sector_offset)
        entry       == dir_entries[entry_no + 1]
        following   == FollowingEntries(dir_entries,
                                        SectorEntries(dir, sector_offset + 1),
                                        entry_no, entry.secondary_count)
        file_type   == IF (entry.file_attribute \div 16) % 2 = 1
                       THEN "Directory" ELSE "File"
        filled      == FollowingLoop(following, 1,
                           [FsEntry_new EXCEPT !.file_type = file_type])
    IN  IF entry.type = 0
        THEN [res |-> "Ok", found_all_entries |-> TRUE,
              output_directory |-> output_directory]
        ELSE IF entry.type = FILE_DIRECTORY_ENTRY
        THEN IF sector_offset + 1 \in failing
             THEN [res |-> "Err", error |-> "ReadFail"]
             ELSE IF filled.res = "Err" THEN filled
             ELSE EntryLoop(sector_offset, entry_no + 1,
                            PushRecord(output_directory, filled.fs_entry),
                            dir, failing)
        ELSE EntryLoop(sector_offset, entry_no + 1, output_directory, dir,
                       failing)

\* `while !found_all_entries`, from sector sector_offset on: the sector is
\* read, its entries are gone through, and the loop goes on to the next
\* sector unless the marker was met.
RECURSIVE ListLoop(_, _, _, _)
ListLoop(sector_offset, output_directory, dir, failing) ==
    IF sector_offset \in failing THEN [res |-> "Err", error |-> "ReadFail"]
    ELSE
    LET sector == EntryLoop(sector_offset, 0, output_directory, dir, failing)
    IN  IF sector.res = "Err" THEN sector
        ELSE IF sector.found_all_entries
        THEN [res |-> "Ok", records |-> sector.output_directory]
        ELSE ListLoop(sector_offset + 1, sector.output_directory, dir, failing)

\* ExFat::list_directory on the directory whose entries are dir.
list_directory(dir, failing) == ListLoop(0, <<>>, dir, failing)

(***************************************************************************)
(* Directories                                                             *)
(***************************************************************************)

LabelEntry == [BlankEntry EXCEPT !.type = VOLUME_LABEL_ENTRY]

FileEntry(secondary_count, file_attribute) ==
    [BlankEntry EXCEPT !.type = FILE_DIRECTORY_ENTRY,
                       !.secondary_count = secondary_count,
                       !.file_attribute = file_attribute]

StreamEntry(first_cluster, valid_data_length, data_length) ==
    [BlankEntry EXCEPT !.type = STREAM_EXTENSION_ENTRY,
                       !.first_cluster = first_cluster,
                       !.valid_data_length = valid_data_length,
                       !.data_length = data_length]

\* The file name entry number k of a name: its units 15 (k - 1) + 1 to 15 k,
\* with zero for those past the end of the name.
NameEntry(units, k) ==
    [BlankEntry EXCEPT
        !.type = FILE_NAME_ENTRY,
        !.units = [i \in 1..15 |->
                      IF 15 * (k - 1) + i <= Len(units)
                      THEN units[15 * (k - 1) + i] ELSE 0]]

\* The entry set of a file: the file entry, the stream extension and the
\* file name entries its name needs.
EntrySet(units, file_attribute, first_cluster, data_length) ==
    LET names == (Len(units) + 14) \div 15
    IN  <<FileEntry(1 + names, file_attribute),
          StreamEntry(first_cluster, data_length, data_length)>>
        \o [k \in 1..names |-> NameEntry(units, k)]

NameKinds == {"ascii", "cjk", "pairs", "lone", "gap"}

\* A name of n code units: letters; ideographs (3 bytes each in UTF-8);
\* seven surrogate pairs and a letter, again and again; letters with a lone
\* low surrogate in third place; letters with a zero unit in second place.
NameUnits(kind, n) ==
    [i \in 1..n |->
        CASE kind = "ascii" -> 65 + (i % 26)
          [] kind = "cjk"   -> 20013
          [] kind = "pairs" -> IF i % 15 = 0 THEN 65
                               ELSE IF (i % 15) % 2 = 1 THEN 55357 ELSE 56832
          [] kind = "lone"  -> IF i = 3 THEN 56832 ELSE 65 + (i % 26)
          [] kind = "gap"   -> IF i = 2 THEN 0 ELSE 65 + (i % 26)]

\* What may follow the first file: nothing, a file with a good name, a file
\* with a name that does not decode.
SecondFile(second) ==
    CASE second = "none" -> <<>>
      [] second = "good" -> EntrySet(NameUnits("ascii", 3), 16, 9, 0)
      [] second = "bad"  -> EntrySet(NameUnits("lone", 3), 0, 9, 40)

\* A directory: `position` volume label entries, the entry set of a file
\* whose name fills name_entries file name entries (the last one wholly, or
\* with one unit), and what follows it.
Directory(position, name_entries, whole, kind, second) ==
    LET n == IF whole THEN 15 * name_entries ELSE 15 * name_entries - 14
    IN  [i \in 1..position |-> LabelEntry]
        \o EntrySet(NameUnits(kind, n), 0, 7, 1000)
        \o SecondFile(second)

NameEntryCounts == {1, 2, MaxNameEntries - 1, MaxNameEntries}

(***************************************************************************)
(* The directory listing on its own: a directory, then one listing.        *)
(***************************************************************************)

Directories ==
    {[phase |-> "directory", position |-> position,
      name_entries |-> name_entries, whole |-> whole, kind |-> kind,
      second |-> second, failing |-> failing,
      dir |-> Directory(position, name_entries, whole, kind, second),
      listed |-> [res |-> "None"]] :
        position \in 0..(DIRECTORY_ENTRIES_PER_SECTOR - 1),
        name_entries \in NameEntryCounts, whole \in BOOLEAN,
        kind \in NameKinds, second \in {"none", "good", "bad"},
        failing \in {{}} \cup {{k} : k \in 0..MaxFailingSector}}

DirInit ==
    /\ PlayerIdle
    /\ riff = [phase |-> "idle"]
    /\ samples = [phase |-> "idle"]
    /\ vol \in Directories

ListDirectory ==
    /\ vol.phase = "directory"
    /\ vol' = [vol EXCEPT !.phase = "listed",
                          !.listed = list_directory(vol.dir, vol.failing)]
    /\ UNCHANGED <<player_vars, riff, samples>>

DirNext == ListDirectory

DirSpec == DirInit /\ [][DirNext]_vars

(***************************************************************************)
(* Long directories: about as many files as a listing holds.               *)
(***************************************************************************)

\* A directory of `position` volume label entries and `files` files of
\* three entries each: the file entry, the stream extension and one file
\* name entry.  File k has first cluster k; the name of the last file
\* decodes (tail "good") or does not (tail "bad").
LongDirectory(position, files, tail) ==
    [i \in 1..position |-> LabelEntry]
    \o [i \in 1..(3 * files) |->
          LET k == ((i - 1) \div 3) + 1
          IN  CASE (i - 1) % 3 = 0 -> FileEntry(2, 0)
                [] (i - 1) % 3 = 1 -> StreamEntry(k, 1000, 1000)
                [] OTHER -> NameEntry(NameUnits(IF k = files /\ tail = "bad"
                                                THEN "lone" ELSE "ascii", 3), 1)]

\* The sector of a directory that holds its entry number n.
SectorOf(n) == (n - 1) \div DIRECTORY_ENTRIES_PER_SECTOR

\* The numbers of files: one below the capacity of a listing, the capacity,
\* one above it and some sectors' worth above it.  The positions of the
\* first file in its sector: one in five.  All reads succeed, or the read of
\* one sector fails, from two sectors before the one where the entries of
\* the last record within the capacity end to three sectors after it.
LongDirectories ==
    {[phase |-> "directory", position |-> position, files |-> files,
      tail |-> tail, failing |-> failing,
      dir |-> LongDirectory(position, files, tail),
      listed |-> [res |-> "None"]] :
        position \in {5 * k : k \in 0..3},
        files \in (DIR_LENGTH_LIMIT - 1)..(DIR_LENGTH_LIMIT + 1)
                     \cup {DIR_LENGTH_LIMIT + 6 * k : k \in 1..MaxExtraFiles},
        tail \in {"good", "bad"},
        failing \in {{}} \cup {{SectorOf(3 * DIR_LENGTH_LIMIT) + 3 - k} :
                                  k \in 0..(MaxFailingSector + 3)}}

LongDirInit ==
    /\ PlayerIdle
    /\ riff = [phase |-> "idle"]
    /\ samples = [phase |-> "idle"]
    /\ vol \in LongDirectories

LongDirSpec == LongDirInit /\ [][DirNext]_vars

(***************************************************************************)
(* Entry sets and the entry after them.                                    *)
(***************************************************************************)

\* What may come after the entry set of the first file: the end of the
\* directory, the entry set of a second file, a file name entry or a stream
\* extension that no file entry governs.
AfterKinds == {"none", "file", "name", "stream"}

AfterEntries(after) ==
    CASE after = "none"   -> <<>>
      [] after = "file"   -> EntrySet(NameUnits("ascii", 3), 16, 9, 0)
      [] after = "name"   -> <<NameEntry(NameUnits("cjk", 2), 1)>>
      [] after = "stream" -> <<StreamEntry(9, 40, 40)>>

\* A directory: `position` volume label entries, a file entry that declares
\* `count` secondary entries, those entries (the stream extension and
\* count - 1 full file name entries), and what comes after them.
GovernedDirectory(position, count, after) ==
    [i \in 1..position |-> LabelEntry]
    \o <<FileEntry(count, 0), StreamEntry(7, 1000, 1000)>>
    \o [k \in 1..(count - 1) |-> NameEntry(NameUnits("ascii", 15 * (count - 1)), k)]
    \o AfterEntries(after)

GovernedDirectories ==
    {[phase |-> "directory", position |-> position, count |-> count,
      after |-> after, failing |-> {},
      dir |-> GovernedDirectory(position, count, after),
      listed |-> [res |-> "None"]] :
        position \in 0..(DIRECTORY_ENTRIES_PER_SECTOR - 1),
        count \in 1..MaxGoverned, after \in AfterKinds}

EntrySetInit ==
    /\ PlayerIdle
    /\ riff = [phase |-> "idle"]
    /\ samples = [phase |-> "idle"]
    /\ vol \in GovernedDirectories

EntrySetSpec == EntrySetInit /\ [][DirNext]_vars


(***************************************************************************)
(* wav.rs: WavFile::get_next_samples                                       *)
(***************************************************************************)

\* The loop `for i in 0..BUFFER_BLOCKS`.  Iteration i reads a block, adds it
\* to sample_vec and leaves the loop if bytes_read_now exceeds bytes_left,
\* which is data_length less the cursor's bytes_read throughout the loop.  So
\* the loop ends in the first iteration whose bytes_read_now exceeds
\* bytes_left, or after the last; the read of iteration fail_at fails (None:
\* no read fails).  bytes_read is the local count of the call, vec_len the
\* length of sample_vec.
SamplesLoop(self, skip_bytes, fail_at, checks) ==
    LET bytes_read_now(i) == IF i = 0 THEN BLOCK_SIZE - skip_bytes
                             ELSE BLOCK_SIZE
        bytes_left == U32Sub(self.data_length, self.bytes_read)
        breaks     == {i \in 0..(BUFFER_BLOCKS - 1) :
                          U32Lt(bytes_left.val, U32(bytes_read_now(i)))}
        last       == IF breaks = {} THEN BUFFER_BLOCKS
                      ELSE CHOOSE i \in breaks : \A j \in breaks : i <= j
        before     == IF last = 0 THEN 0
                      ELSE bytes_read_now(0) + (last - 1) * BLOCK_SIZE
    IN  IF fail_at = 0 THEN [res |-> "Err"]
        ELSE IF bytes_left.overflow /\ checks THEN [res |-> "Panic"]
        ELSE IF fail_at # None /\ fail_at <= last /\ fail_at < BUFFER_BLOCKS
        THEN [res |-> "Err"]
        ELSE IF last < BUFFER_BLOCKS
        THEN [res |-> "Ok",
              bytes_read |-> before + U32ToInt(bytes_left.val),
              vec_len |-> (last + 1) * BLOCK_SIZE]
        ELSE [res |-> "Ok", bytes_read |-> before,
              vec_len |-> BUFFER_BLOCKS * BLOCK_SIZE]

\* WavFile::get_next_samples.  The result carries the cursor as the call
\* leaves it and the number of bytes the returned iterator draws from
\* sample_vec: those after the first skip_bytes, at most bytes_read of them.
get_next_samples(self, bytes_per_channel, fail_at, checks) ==
    LET off        == U32Add(self.first_byte, self.bytes_read)
        skip_bytes == IF self.bytes_read = U32(0)
                      THEN self.first_byte[2] % BLOCK_SIZE ELSE 0
        loop       == SamplesLoop(self, skip_bytes, fail_at, checks)
        total      == U32Add(self.bytes_read, U32(loop.bytes_read))
        taken      == IF loop.bytes_read <= loop.vec_len - skip_bytes
                      THEN loop.bytes_read ELSE loop.vec_len - skip_bytes
    IN  IF bytes_per_channel > 4 THEN [res |-> "Panic", wav |-> self]
        ELSE IF off.overflow /\ checks THEN [res |-> "Panic", wav |-> self]
        ELSE IF loop.res # "Ok" THEN [res |-> loop.res, wav |-> self]
        ELSE IF total.overflow /\ checks THEN [res |-> "Panic", wav |-> self]
        ELSE [res |-> "Ok", wav |-> [self EXCEPT !.bytes_read = total.val],
              bytes |-> taken]

(***************************************************************************)
(* The sample reader on its own: any sequence of get_next_samples calls on *)
(* a cursor.                                                               *)
(***************************************************************************)

SamplesInit ==
    /\ WavInit
    /\ EngineInit
    /\ event = "init"
    /\ riff = [phase |-> "idle"]
    /\ vol = [phase |-> "idle"]
    /\ \E bytes_per_channel \in {2, 8} :
          samples = [phase |-> "reading", bytes_per_channel |-> bytes_per_channel,
                     calls |-> 0, res |-> "None", bytes |-> 0, total |-> 0]

\* One call: the cursor moves as the call leaves it, and the bytes its
\* iterator yields are added to the total.
GetNextSamples ==
    /\ samples.phase = "reading"
    /\ samples.calls < MaxSampleCalls
    /\ samples.res # "Panic"
    /\ \E fail_at \in {None, 0, 1} :
          LET r == get_next_samples(wav, samples.bytes_per_channel, fail_at,
                                    overflow_checks)
          IN  /\ wav' = r.wav
              /\ samples' = [samples EXCEPT
                    !.calls = samples.calls + 1,
                    !.res   = r.res,
                    !.bytes = IF r.res = "Ok" THEN r.bytes ELSE 0,
                    !.total = samples.total
                              + (IF r.res = "Ok" THEN r.bytes ELSE 0)]
    /\ UNCHANGED <<engine_vars, overflow_checks, ret, ok_reads, calls, event,
                   riff, vol>>

SamplesNext == GetNextSamples

SamplesSpec == SamplesInit /\ [][SamplesNext]_vars

----------------------------------------------------------------------------
(* Properties of the streaming engine *)

Slots == 0..1

\* C1: in every reachable state of the two-slot engine at most one slot is
\* Playing.
C1_AtMostOnePlaying ==
    Cardinality({i \in Slots : buf_states[i] = "Playing"}) <= 1

\* The consumer has moved Playing to slot 1 and slot 0 is Filled again.
C1_Witness ==
    buf_states[1] = "Playing" /\ buf_states[0] = "Filled"

LegalStep(old, new) ==
    <<old, new>> \in {<<"Empty", "Filling">>, <<"Filling", "Filled">>,
                      <<"Filled", "Playing">>, <<"Playing", "Empty">>}

\* C2: every change of a slot's state is one of Empty->Filling,
\* Filling->Filled, Filled->Playing, Playing->Empty; the slot the consumer
\* writes Empty to was Playing, the slot the producer writes Filled to was
\* Filling and the slot it writes Filling to was Empty.
C2_StrictCycle ==
    [][ /\ \A i \in Slots : buf_states'[i] # buf_states[i]
                               => LegalStep(buf_states[i], buf_states'[i])
        /\ \A i \in Slots : (event' = "isr" /\ buf_states[i] = "Filled"
                               /\ buf_states'[i] = "Playing")
                               => buf_states[1 - i] = "Playing"
        /\ event' = "publish" => buf_states[fill_indx] = "Filling"
        /\ event' = "claim" => buf_states[fill_indx] = "Empty"
      ]_vars

\* A block read has failed after both slots went round the cycle: slot 0
\* was retired and claimed again, slot 1 was filled and is Playing.
C2_Witness ==
    /\ event = "read_err"
    /\ buf_states[0] = "Filling"
    /\ buf_states[1] = "Playing"

ProducerWriting(i) == pc = "filling" /\ fill_indx = i

OutputReading(i) == DmaReading = i

\* C3: no slot payload is read and written at the same time: the producer
\* writes a slot's storage only while the slot is Filling, and the output
\* reads a slot's storage only while the slot is Filled or Playing.
C3_NoConcurrentReadWrite ==
    \A i \in Slots :
        /\ ProducerWriting(i) => buf_states[i] = "Filling"
        /\ OutputReading(i) => buf_states[i] \in {"Filled", "Playing"}
        /\ ~(ProducerWriting(i) /\ OutputReading(i))

\* The consumer's step from a state with a Filled slot.
ConsumerFindsFilled == event' = "isr" /\ find_buffer(buf_states, "Filled") # None

\* The consumer's step from a state with no Filled slot.
ConsumerUnderrun == event' = "isr" /\ find_buffer(buf_states, "Filled") = None

\* The memory target the stream reads after the buffer in progress.
NextTarget == dma_mem[1 - dma_ct]

HandsOver(p) ==
    /\ NextTarget' = p
    /\ buf_states'[p] = "Playing"
    /\ buf_states'[1 - p] = "Empty"

Paired ==
    \A i \in Slots : (buf_states[i] = "Filled" /\ buf_states'[i] = "Playing")
                        => buf_states'[1 - i] = "Empty"

\* C4 as stated: every consumer invocation that finds a Filled slot hands
\* it to the output as the next transfer target, marks it Playing and marks
\* the complementary slot Empty; Filled->Playing never happens without the
\* complementary slot becoming Empty.
C4_HandoffAlways ==
    [][ /\ ConsumerFindsFilled => HandsOver(find_buffer(buf_states, "Filled"))
        /\ Paired
      ]_vars

\* C4 amended: a consumer invocation that finds a Filled slot while the
\* transfer-complete flag is set (so that next_transfer accepts the buffer)
\* hands it over, marks it Playing and marks the complementary slot Empty in
\* that invocation; without the flag next_transfer refuses and the slot
\* states and transfer targets stay as they were; Filled->Playing never
\* happens without the complementary slot becoming Empty.
C4_HandoffWhenAccepted ==
    [][ /\ (ConsumerFindsFilled /\ tc_flag)
              => HandsOver(find_buffer(buf_states, "Filled"))
        /\ (ConsumerFindsFilled /\ ~tc_flag)
              => (buf_states' = buf_states /\ dma_mem' = dma_mem)
        /\ Paired
      ]_vars

\* The consumer has just handed over slot 1 and retired slot 0.
C4_Witness ==
    /\ event = "isr"
    /\ NextTarget = 1
    /\ buf_states[1] = "Playing"
    /\ buf_states[0] = "Empty"

\* C5 as stated: every consumer invocation that finds no Filled slot sets
\* the silence buffer as the next transfer target and leaves both slot
\* states unchanged.
C5_UnderrunAlwaysSilence ==
    [][ ConsumerUnderrun
           => (NextTarget' = SILENCE_BUFFER /\ buf_states' = buf_states) ]_vars

\* C5 amended: a consumer invocation that finds no Filled slot leaves both
\* slot states unchanged; it sets the silence buffer as the next transfer
\* target when the transfer-complete flag is set, and leaves the transfer
\* targets as they were when it is not.
C5_UnderrunSilenceWhenComplete ==
    [][ /\ ConsumerUnderrun => buf_states' = buf_states
        /\ (ConsumerUnderrun /\ tc_flag) => NextTarget' = SILENCE_BUFFER
        /\ (ConsumerUnderrun /\ ~tc_flag) => dma_mem' = dma_mem
      ]_vars

\* The consumer has just met an underrun while slot 1 is being filled, and
\* silence is the next transfer target.
C5_Witness ==
    /\ event = "isr"
    /\ NextTarget = SILENCE_BUFFER
    /\ buf_states[1] = "Filling"
    /\ buf_states[0] = "Playing"

\* C6: when a block read fails during a fill, the slot is not marked Filled
\* for that fill attempt and the producer is back at scanning; a slot marked
\* Filled holds a complete fill.
C6_FailedFillNotPublished ==
    /\ \A i \in Slots : fill_failed[i] => buf_states[i] # "Filled"
    /\ \A i \in Slots : buf_states[i] = "Filled" => payload[i].content = "full"
    /\ event = "read_err" => pc = "scan"

\* A block read has failed in steady state, after an earlier block was read.
C6_Witness ==
    /\ event = "read_err"
    /\ ok_reads >= 1
    /\ fill_failed[fill_indx]

\* C7: a block-read failure is soft: after a storage read failed (so that a
\* retry could succeed), a slot eventually becomes Filled again.
C7_SoftRetry ==
    (event = "read_err" /\ ret.read_issued)
        ~> (\E i \in Slots : buf_states[i] = "Filled")

\* C8: each payload the output plays is the silence buffer or a slot that
\* was filled completely since that slot was last played (slot 0's initial
\* content counts as a complete fill); no fill is played twice.
C8_NoStaleAudio ==
    play.buf # SILENCE_BUFFER
        => (play.content \in {"full", "primed"} /\ ~play.replay)

----------------------------------------------------------------------------
(* Properties of the block reader *)

\* C9: after any sequence of get_next_pcm_block calls, bytes_read does not
\* exceed data_length.
C9_ConsumedWithinLength ==
    U32Ge(wav.data_length, wav.bytes_read)

\* The block of the file (counted from its first block) the last call read.
BlockRead == ret.blockaddr - wav.start_block_address

\* C10: the block the first successful call returns holds only bytes of the
\* data payload: none before first_byte, none past first_byte + data_length.
C10_FirstBlockOnlySamples ==
    (ret.res = "Ok" /\ ok_reads = 1)
        => /\ BlockRead * BLOCK_SIZE >= U32ToInt(wav.first_byte)
           /\ (BlockRead + 1) * BLOCK_SIZE
                 <= U32ToInt(wav.first_byte) + U32ToInt(wav.data_length)

\* The consumed-count the last call tested for the end of the data: the
\* count after the alignment step, before the block is added.
CountAtTest ==
    IF ret.res = "Ok" THEN U32Sub(wav.bytes_read, U32(BLOCK_SIZE)).val
    ELSE wav.bytes_read

\* count + BLOCK_SIZE reaches or exceeds data_length, as numbers.
ReachesEnd(count) ==
    LET sum == U32Add(count, U32(BLOCK_SIZE))
    IN  sum.overflow \/ U32Ge(sum.val, wav.data_length)

\* The last call failed for the end of the data: Err with no storage read.
EndOfStream == ret.res = "Err" /\ ~ret.read_issued

\* C11: a call fails with end of stream, issuing no read, exactly when the
\* consumed-count plus one block reaches or exceeds data_length; and after
\* such a failure every later call on the cursor fails the same way.
C11_EndOfStreamExactly ==
    /\ [](ret.res \in {"Ok", "Err"} => (EndOfStream <=> ReachesEnd(CountAtTest)))
    /\ [][(EndOfStream /\ event' = "call") => EndOfStream']_vars


----------------------------------------------------------------------------
(* Properties of the container reader *)

\* What the file holds at offset o, whatever the blocks it lies in: the four
\* identifier bytes and the declared length after them.
IdentifierAt(file, o) == [i \in 1..4 |-> FileByte(file, o + i - 1)]

LengthAt(file, o) == from_le_bytes([i \in 1..4 |-> FileByte(file, o + 3 + i)])

\* The stated rule for the offset of the next chunk.
RuleNext(file, start) ==
    IF IdentifierAt(file, start) \in {ID_RIFF, ID_LIST} THEN start + 8
    ELSE IF IdentifierAt(file, start) = ID_WAVE THEN start + 4
    ELSE start + 8 + LengthAt(file, start)

\* A chunk has been walked and is the current one.
Walked == riff.phase \in {"walking", "stopped"} /\ riff.hops >= 1

\* The 8 bytes of the header at offset start lie in one block.
HeaderInOneBlock(start) == (start % BLOCK_SIZE) + 8 <= BLOCK_SIZE

\* The file is RIFF header, WAVE tag, fmt chunk, data chunk.
PlainFile == riff.name = "fmt_data" /\ riff.junk = 0

\* On the plain file the chunks walked are RIFF at 0, WAVE at 8, "fmt " at 12
\* and "data" at 36, each ending where the next starts.
PlainWalk ==
    (Walked /\ PlainFile /\ riff.hops <= 4) =>
        /\ riff.chunk.identifier = <<ID_RIFF, ID_WAVE, ID_fmt, ID_data>>[riff.hops]
        /\ riff.chunk.chunk_start = <<0, 8, 12, 36>>[riff.hops]
        /\ riff.chunk.next_chunk = <<8, 12, 36, 344>>[riff.hops]

\* C12 as stated: in the chunk walk every chunk starts at the next-chunk
\* offset of the chunk before it, and its own next-chunk offset is its start
\* plus 8 for a RIFF or LIST header, plus 4 for the WAVE tag, and plus 8 plus
\* the declared length for every other chunk; on the file RIFF, WAVE, "fmt ",
\* "data" the offsets follow the rule in that order.
C12_ChunkWalk ==
    /\ Walked =>
          /\ riff.chunk.chunk_start = riff.prev.next_chunk
          /\ riff.chunk.next_chunk = RuleNext(riff.file, riff.chunk.chunk_start)
    /\ PlainWalk

\* C12, amended: the rule holds for every chunk whose 8-byte header lies in
\* one block; the start always is the next-chunk offset of the chunk before.
C12_ChunkWalkInOneBlock ==
    /\ Walked => riff.chunk.chunk_start = riff.prev.next_chunk
    /\ (Walked /\ HeaderInOneBlock(riff.chunk.chunk_start)) =>
          riff.chunk.next_chunk = RuleNext(riff.file, riff.chunk.chunk_start)
    /\ PlainWalk

\* The walk has gone through RIFF, WAVE, "fmt " and a LIST header and stands
\* on what follows the LIST header.
C12_Witness ==
    /\ riff.phase = "walking"
    /\ riff.name = "fmt_list_data"
    /\ riff.prev.identifier = ID_LIST
    /\ riff.chunk.identifier = ID_INFO
    /\ riff.chunk.chunk_start = riff.prev.chunk_start + 8


\* The chunks of a file in the order of the stated rule, whatever the blocks
\* they lie in: the starts of the first n chunks walked (the first is at 0).
RECURSIVE ChunkStarts(_, _)
ChunkStarts(file, n) ==
    IF n = 1 THEN <<0>>
    ELSE LET before == ChunkStarts(file, n - 1)
         IN  Append(before, RuleNext(file, before[n - 1]))

ChunkStartAt(file, n) == ChunkStarts(file, n)[n]

\* The chunks examined within the hop bound are the first ten.
Examined == 1..10

\* The positions, among the chunks examined, of the first data chunk and of
\* the fmt chunks before it.
DataPositions(file) ==
    {n \in Examined : IdentifierAt(file, ChunkStartAt(file, n)) = ID_data}

FirstData(file) ==
    CHOOSE n \in DataPositions(file) : \A m \in DataPositions(file) : n <= m

FmtPositions(file) ==
    IF DataPositions(file) = {} THEN {}
    ELSE {n \in 1..FirstData(file) :
             IdentifierAt(file, ChunkStartAt(file, n)) = ID_fmt}

LastFmt(file) ==
    CHOOSE n \in FmtPositions(file) : \A m \in FmtPositions(file) : m <= n

\* A little-endian field of the given width at offset o of the file.
FieldAt(file, o, width) ==
    from_le_bytes([i \in 1..width |-> FileByte(file, o + i - 1)])

\* The descriptor holds the fields of the fmt chunk at offset fmt_start and
\* the payload offset and declared length of the data chunk at data_start.
Describes(w, file, fmt_start, data_start) ==
    /\ w.format = decode_format(FieldAt(file, fmt_start + 8, 2))
    /\ w.n_channels = FieldAt(file, fmt_start + 10, 2)
    /\ w.sample_rate = FieldAt(file, fmt_start + 12, 4)
    /\ w.byte_rate = FieldAt(file, fmt_start + 16, 4)
    /\ w.block_align = FieldAt(file, fmt_start + 20, 2)
    /\ w.bits_per_sample = FieldAt(file, fmt_start + 22, 2)
    /\ w.first_byte = data_start + 8
    /\ w.data_length = LengthAt(file, data_start)
    /\ w.bytes_read = 0

\* The reads a successful open makes: one per chunk up to the data chunk and
\* one more per fmt chunk.  A read failure is met when one of them fails.
ReadFailureMet(file, fail_at) ==
    /\ fail_at # None
    /\ fail_at < FirstData(file) + Cardinality(FmtPositions(file))

\* A descriptor is returned only for a file with a fmt chunk and then a data
\* chunk among the chunks examined, only without a read failure, and it
\* describes those two chunks.
DescriptorOnlyWhenFound ==
    (riff.phase = "opened" /\ riff.opened.res = "Ok") =>
        /\ DataPositions(riff.file) # {}
        /\ FmtPositions(riff.file) # {}
        /\ ~ReadFailureMet(riff.file, riff.fail_at)
        /\ Describes(riff.opened.wav_file, riff.file,
                     ChunkStartAt(riff.file, LastFmt(riff.file)),
                     ChunkStartAt(riff.file, FirstData(riff.file)))

\* Every chunk header up to the data chunk lies in one block, and every fmt
\* chunk among them lies in the first block.
WithinBlocks(file) ==
    \A n \in Examined :
        (DataPositions(file) = {} \/ n <= FirstData(file)) =>
            /\ HeaderInOneBlock(ChunkStartAt(file, n))
            /\ IdentifierAt(file, ChunkStartAt(file, n)) = ID_fmt =>
                   ChunkStartAt(file, n) + 24 <= BLOCK_SIZE

----------------------------------------------------------------------------
(* Properties of the volume reader *)

\* What the image holds, by the kind of each candidate sector.
HasName(kind) == kind \in {"boot", "bad_signature"}

HasSignature(kind) == kind \in {"boot", "other_name", "name_at_0"}

\* The position of the first candidate with the name, and of the first
\* candidate whose read fails (one past the last candidate if there is none).
FirstNamed ==
    LET named == {i \in Candidates : HasName(vol.image[i])}
    IN  IF named = {} THEN Len(TRY_BOOT_SECOTRS) + 1
        ELSE CHOOSE i \in named : \A j \in named : i <= j

FirstFailing ==
    LET bad == {i \in Candidates : TRY_BOOT_SECOTRS[i] \in vol.failing}
    IN  IF bad = {} THEN Len(TRY_BOOT_SECOTRS) + 1
        ELSE CHOOSE i \in bad : \A j \in bad : i <= j

\* The search reads the candidates in order up to the first one with the
\* name; a read error is met when one of these reads fails.
ReadErrorMet == FirstFailing <= FirstNamed /\ FirstFailing \in Candidates

Searched == vol.phase = "searched"

\* C14: get_boot_sector returns the first candidate sector whose 8-byte
\* filesystem name matches and whose 2-byte boot signature at the end of the
\* sector is valid; it fails with InvalidBootSignature if the candidate whose
\* name matches has no valid signature, with NoBootSector if no candidate's
\* name matches, and with ReadFail on a read error; an image that is valid
\* only at candidate address 32768 yields that sector.
C14_BootSectorSearch ==
    Searched =>
        /\ vol.found.res = "Ok" =>
              /\ \E i \in Candidates :
                    /\ vol.found.address = TRY_BOOT_SECOTRS[i]
                    /\ vol.found.sector = SectorBytes(vol.image[i])
                    /\ HasName(vol.image[i]) /\ HasSignature(vol.image[i])
                    /\ \A j \in 1..(i - 1) :
                          ~(HasName(vol.image[j]) /\ HasSignature(vol.image[j]))
              /\ ~ReadErrorMet
        /\ (~ReadErrorMet /\ FirstNamed \in Candidates) =>
              IF HasSignature(vol.image[FirstNamed])
              THEN vol.found.res = "Ok"
              ELSE vol.found = [res |-> "Err", error |-> "InvalidBootSignature"]
        /\ (~ReadErrorMet /\ FirstNamed \notin Candidates) =>
              vol.found = [res |-> "Err", error |-> "NoBootSector"]
        /\ ReadErrorMet => vol.found = [res |-> "Err", error |-> "ReadFail"]
        /\ (/\ vol.failing = {}
            /\ \A i \in Candidates :
                  IF TRY_BOOT_SECOTRS[i] = 32768 THEN vol.image[i] = "boot"
                  ELSE ~HasName(vol.image[i])) =>
              vol.found.res = "Ok" /\ vol.found.address = 32768

\* The image is valid at 32768 only, the sectors at 0 and 65536 hold other
\* things, and the search has returned the sector at 32768.
C14_Witness ==
    /\ Searched
    /\ vol.failing = {}
    /\ vol.image = <<"other_name", "name_at_0", "boot", "blank">>
    /\ vol.found.res = "Ok"
    /\ vol.found.address = 32768


\* C15: for every volume geometry and every cluster number calc_cluster_sector
\* is strictly increasing in the cluster number, and calc_cluster_sector(2) is
\* partition_offset + cluster_heap_offset in 32-bit arithmetic (the low 32
\* bits of the sum).
C15_ClusterSectorIncreasing ==
    /\ (vol.phase = "mounted" /\ vol.ncalls >= 1) =>
          /\ vol.cur.res = "Ok"
          /\ vol.cur.cluster = U32(2) =>
                vol.cur.sector = U32Add(vol.partition_offset.lo,
                                        vol.cluster_heap_offset).val
    /\ (vol.phase = "mounted" /\ vol.ncalls >= 2) =>
          /\ U32Lt(vol.prev.cluster, vol.cur.cluster) =>
                U32Lt(vol.prev.sector, vol.cur.sector)
          /\ U32Lt(vol.cur.cluster, vol.prev.cluster) =>
                U32Lt(vol.cur.sector, vol.prev.sector)


\* The directory has been listed.
Listed == vol.phase = "listed"

\* The number of code units of the first file's name.
NameLength ==
    IF vol.whole THEN 15 * vol.name_entries ELSE 15 * vol.name_entries - 14

\* C16: for a primary entry followed by its secondary entries (any count the
\* format allows), list_directory gives the same record for every position of
\* the primary entry within its sector, also where the secondary entries
\* continue past the end of the sector: the listing is the one obtained with
\* the primary entry in first place, and no file name entry is dropped.
C16_SameRecordAtEveryPosition ==
    (Listed /\ vol.failing = {}) =>
        /\ vol.listed = list_directory(Directory(0, vol.name_entries, vol.whole,
                                                 vol.kind, vol.second), {})
        /\ (vol.kind = "ascii" /\ vol.listed.res = "Ok") =>
              vol.listed.records[1].name = NameUnits("ascii", NameLength)

\* C17: every record of a successful listing has a name of at most 255
\* chars (and at most 255 bytes of UTF-8) with no zero code unit in it.
C17_NamesBoundedNoPadding ==
    (Listed /\ vol.listed.res = "Ok") =>
        \A r \in 1..Len(vol.listed.records) :
            LET name == vol.listed.records[r].name
            IN  /\ Len(name) <= MAX_FILE_NAME_LENGTH
                /\ Utf8Len(name) <= MAX_FILE_NAME_LENGTH
                /\ \A i \in 1..Len(name) : name[i] # 0

\* A name of 255 code units with a zero unit among them has been listed
\* with its 254 other units.
C17_Witness ==
    /\ Listed
    /\ vol.kind = "gap"
    /\ NameLength = MAX_FILE_NAME_LENGTH
    /\ vol.listed.res = "Ok"
    /\ Len(vol.listed.records[1].name) = MAX_FILE_NAME_LENGTH - 1

\* A sequence of code units is a name that decodes: every surrogate is half
\* of a pair, and the UTF-8 form has at most 255 bytes.
Decodes(units) ==
    LET n == Len(units)
        Count(from, to) ==
            Cardinality({i \in 1..n : units[i] >= from /\ units[i] <= to})
    IN  /\ \A i \in 1..n :
              /\ IsHighSurrogate(units[i]) =>
                     i < n /\ IsLowSurrogate(units[i + 1])
              /\ IsLowSurrogate(units[i]) =>
                     i > 1 /\ IsHighSurrogate(units[i - 1])
        /\ Count(1, 127) + 2 * Count(128, 2047) + 3 * Count(2048, 55295)
           + 4 * Count(55296, 56319) + 3 * Count(57344, 65535)
               <= MAX_FILE_NAME_LENGTH

\* The code units of the first file's name that lie in the file name entries
\* within the sector of its file entry and the sector after it.
UnitsInReach ==
    LET units == NameUnits(vol.kind, NameLength)
        reach == 15 * (2 * DIRECTORY_ENTRIES_PER_SECTOR - vol.position - 2)
    IN  SubSeq(units, 1, IF NameLength <= reach THEN NameLength ELSE reach)

\* The first file's name does not decode.
FirstNameFails == ~Decodes(UnitsInReach)

\* The third sector of the directory has to be read: the entries do not end
\* within the first two sectors, or a file entry lies in the second.
ThirdSectorNeeded ==
    \/ Len(vol.dir) >= 2 * DIRECTORY_ENTRIES_PER_SECTOR
    \/ \E i \in (DIRECTORY_ENTRIES_PER_SECTOR + 1)..Len(vol.dir) :
          vol.dir[i].type = FILE_DIRECTORY_ENTRY

\* C18: list_directory is all-or-nothing: when the decoding of a name fails
\* it returns ErrorDecodingName and when a sector read fails it returns
\* ReadFail, and in both cases no record is returned.
C18_AllOrNothing ==
    Listed =>
        /\ vol.listed.res = "Err" =>
              /\ DOMAIN vol.listed = {"res", "error"}
              /\ vol.listed.error \in {"ErrorDecodingName", "ReadFail"}
              /\ vol.listed.error = "ReadFail" => vol.failing # {}
        /\ (vol.failing = {} /\ (FirstNameFails \/ vol.second = "bad")) =>
              vol.listed = [res |-> "Err", error |-> "ErrorDecodingName"]
        /\ (vol.failing \cap {0, 1} # {}) =>
              vol.listed = [res |-> "Err", error |-> "ReadFail"]
        /\ (2 \in vol.failing /\ ThirdSectorNeeded) => vol.listed.res = "Err"

\* After a first file whose record was collected, the name of the second
\* does not decode, and the listing returns the error alone.
C18_Witness ==
    /\ Listed
    /\ vol.failing = {}
    /\ vol.kind = "ascii"
    /\ ~FirstNameFails
    /\ vol.second = "bad"
    /\ vol.listed = [res |-> "Err", error |-> "ErrorDecodingName"]


----------------------------------------------------------------------------
(* Properties of the sample reader *)

\* C19: get_next_samples trims at the declared data length: over any
\* sequence of calls the total number of sample bytes yielded and the
\* cursor's bytes_read never exceed data_length, also when the data left at a
\* call is more than one block and less than the scratch capacity.
C19_SamplesWithinLength ==
    samples.phase = "reading" =>
        /\ U32Ge(wav.data_length, U32(samples.total))
        /\ U32Ge(wav.data_length, wav.bytes_read)

----------------------------------------------------------------------------
(* Properties of the producer's claim of a slot *)

\* The consumer's step taken after the producer's search has found an Empty
\* slot and before the producer has written Filling to it.
ConsumerBetweenCheckAndClaim == pc = "claim" /\ event' = "isr"

\* The producer's write of Filling lands on a slot that is Empty.
ClaimedSlotEmpty ==
    event' = "claim" => /\ buf_states[fill_indx] = "Empty"
                        /\ buf_states'[fill_indx] = "Filling"

----------------------------------------------------------------------------
(* Progress of the slot cycle *)

\* A call of get_next_pcm_block by the producer has not returned Ok: the
\* data has run out, a storage read has failed or the call did not return.
ReadFailed == ret.res \notin {"None", "Ok"}

\* C21: with the producer scheduled fairly and completion interrupts
\* arriving and being served (the fairness of FairSpec), and as long as no
\* block read has failed: a slot that is not Playing eventually is Playing
\* again, and on its way there an Empty slot is next Filling, a Filling slot
\* is next Filled and a Filled slot is next Playing; so every Empty slot
\* eventually becomes Filled, every Filled slot eventually becomes Playing
\* and each slot is Playing again and again.
C21_SlotCycleLive ==
    /\ \A i \in Slots :
          (buf_states[i] # "Playing") ~> (buf_states[i] = "Playing" \/ ReadFailed)
    /\ [][ \A i \in Slots : buf_states'[i] # buf_states[i]
                               => LegalStep(buf_states[i], buf_states'[i]) ]_vars

\* Slot 0 has gone round the whole cycle: it was retired, filled with the
\* second block read and is Playing again, with no read failed.
C21_Witness ==
    /\ event = "isr"
    /\ ok_reads = 2
    /\ ~ReadFailed
    /\ buf_states[0] = "Playing"
    /\ payload[0].content = "full"
    /\ buf_states[1] = "Empty"

----------------------------------------------------------------------------
(* Properties of the block reader: the first call and the calls after it *)

\* The last call was the first call on the cursor.
FirstCall == calls = 1

\* C22: the first call on a cursor returns, after exactly one recursive
\* self-call, whatever the offset of the data payload.
C22_FirstCallRecursesOnce ==
    FirstCall => (ret.res \in {"Ok", "Err"} /\ ret.depth = 1)

\* What is left of the payload's first block from its first byte on.
RestOfFirstBlock == BLOCK_SIZE - (U32ToInt(wav.first_byte) % BLOCK_SIZE)

\* C23: the alignment step of a first call that returned has advanced
\* bytes_read by BLOCK_SIZE minus the offset of first_byte within its block.
C23_AlignmentWithinBlock ==
    (FirstCall /\ ret.res \in {"Ok", "Err"}) => CountAtTest = U32(RestOfFirstBlock)

\* The consumed-count the last call worked from: the count it was entered
\* with, or on a first call what the alignment step made of it.
ConsumedBefore ==
    IF ret.before = U32(0) THEN U32Sub(U32(BLOCK_SIZE), wav.first_byte).val
    ELSE ret.before

FailingCall == event' = "call" /\ ret'.res = "Err"

\* A call that issues a read after a call whose read failed reads the same
\* block.
RetrySameBlock ==
    (event' = "call" /\ ret.res = "Err" /\ ret.read_issued /\ ret'.read_issued)
        => ret'.blockaddr = ret.blockaddr

\* C27 as stated: a call that returns Err leaves the cursor as it was, the
\* first call on the cursor included, and a retry addresses the same block.
C27_FailedCallLeavesCursor ==
    [][ /\ FailingCall => wav' = wav
        /\ RetrySameBlock
      ]_vars

\* C27 amended: a call that returns Err on a cursor already aligned leaves
\* the cursor as it was; a first call that returns Err leaves bytes_read at
\* what the alignment step made of it and the other fields as they were; in
\* both cases a retry addresses the same block.
C27_FailedCallKeepsAlignment ==
    [][ /\ FailingCall
             => wav' = [wav EXCEPT !.bytes_read =
                           IF wav.bytes_read = U32(0)
                           THEN U32Sub(U32(BLOCK_SIZE), wav.first_byte).val
                           ELSE wav.bytes_read]
        /\ RetrySameBlock
      ]_vars

\* The first call on the cursor failed on its storage read and the retry
\* has read that block: the first block the cursor returns.
C27_Witness ==
    /\ calls = 2
    /\ ok_reads = 1
    /\ ret.res = "Ok"
    /\ ret.before # U32(0)
    /\ ret.blockaddr = wav.start_block_address + 1

----------------------------------------------------------------------------
(* Properties of the listing of a long directory *)

\* The entry of the directory at which the listing is to stop: the last
\* entry of the record that fills the capacity, or the end-of-directory
\* marker of a directory with fewer files.
StopEntry ==
    IF vol.files >= DIR_LENGTH_LIMIT
    THEN vol.position + 3 * DIR_LENGTH_LIMIT
    ELSE vol.position + 3 * vol.files + 1

\* The sectors a listing that stops there reads: those up to the sector of
\* StopEntry, and the next one as the lookahead.
SectorsToStop == 0..(SectorOf(StopEntry) + 1)

\* The listing that holds the first n files of the long directory.
HoldsFirst(n) ==
    /\ vol.listed.res = "Ok"
    /\ Len(vol.listed.records) = n
    /\ \A k \in 1..n : /\ vol.listed.records[k].first_cluster = k
                       /\ vol.listed.records[k].name = NameUnits("ascii", 3)

\* C25: list_directory reads no further than the end-of-directory marker or
\* the entry at which the capacity of 205 records is reached: what lies
\* beyond (a sector that cannot be read, a name that does not decode) does
\* not matter, and a directory with more files than the capacity lists as
\* its first 205 files, without error.
C25_StopsAtMarkerOrCapacity ==
    (/\ Listed
     /\ vol.failing \cap SectorsToStop = {}
     /\ vol.tail = "good" \/ vol.files > DIR_LENGTH_LIMIT)
        => HoldsFirst(IF vol.files > DIR_LENGTH_LIMIT THEN DIR_LENGTH_LIMIT
                      ELSE vol.files)

----------------------------------------------------------------------------
(* Properties of the listing of an entry set *)

\* The record of the first file as its `count` secondary entries give it.
GovernedRecord ==
    [name |-> NameUnits("ascii", 15 * (vol.count - 1)), file_type |-> "File",
     first_cluster |-> 7, valid_data_length |-> 1000, data_length |-> 1000]

\* C26: the record of a file is built from the N secondary entries its file
\* entry declares and from nothing else: whatever the entry after those N
\* is, the record's name, first cluster and lengths are those the N entries
\* give.
C26_OnlyGovernedEntries ==
    Listed => /\ vol.listed.res = "Ok"
              /\ Len(vol.listed.records) >= 1
              /\ vol.listed.records[1] = GovernedRecord

----------------------------------------------------------------------------
(* Properties of WavFile::new: its outcomes and the format it decodes *)

\* C28: WavFile::new returns a descriptor or a failure on every file, a
\* file whose fmt chunk declares 0 channels included: it never aborts.
C28_OpenNeverAborts ==
    riff.phase = "opened" => riff.opened.res \in {"Ok", "Err"}

\* The format code the bytes hold.
FormatCode == riff.bytes[1] + 256 * riff.bytes[2]

\* C29: format code 1 decodes to Pcm, 3 to IeeeFloat, 6 to Alaw, 7 to Mulaw
\* and every other code to Other, so that each of the five kinds is the
\* decoding of some code.
C29_FormatPerCode ==
    riff.phase = "decoded"
        => riff.format = CASE FormatCode = 1 -> "Pcm"
                           [] FormatCode = 3 -> "IeeeFloat"
                           [] FormatCode = 6 -> "Alaw"
                           [] FormatCode = 7 -> "Mulaw"
                           [] OTHER -> "Other"

============================================================================
